---- MODULE Spec2Model ----
(***************************************************************************)
(* caltrain-lite: the Cloudflare worker (src/worker/src/index.ts).         *)
(*                                                                         *)
(* The worker has two entry points.  scheduled() is triggered by cron,     *)
(* fetches three GTFS-RT feeds from 511.org, merges them and publishes one *)
(* value under the KV key realtime:status with a TTL.  fetch() is the read *)
(* API: it maps three URL paths to three KV keys.  The schedule keys are   *)
(* uploaded by the daily GitHub Action; the worker only reads them.        *)
(*                                                                         *)
(* Time is counted in whole seconds.  Strings are TLA+ strings; TLC        *)
(* evaluates Len, \o and SubSeq on them.                                   *)
(***************************************************************************)
EXTENDS Integers, Sequences, FiniteSets, TLC

VARIABLES
    now,        \* wall clock, seconds
    apiKey,     \* env.TRANSIT_511_API_KEY ("" when not configured)
    kv,         \* env.TRANSIT_DATA: key -> [value, metadata, expiration]
    pc,         \* position of the scheduled run: "idle", "fetch", "put"
    startedAt,  \* time at which the phase of the run in flight began
    pending,    \* the status handed to TRANSIT_DATA.put, not yet applied
    cronDue,    \* TRUE while the cron instant at `now` has not been served
    misses,     \* cron instants since the last successful put that wrote nothing
    run,        \* what the run in flight has done so far
    ended,      \* summary of the run that ended in the last step, else NoRun
    log,        \* console output of the last step, else NoLog
    resp,       \* response of the request handled in the last step, else NoResp
    seen,       \* the last validated 200 a polling client keeps, else NoResp
    input,      \* what an offline computation (feed parser, schedule builder, client) is given
    output,     \* what that computation returned, else Idle
    page        \* the web client: its components, local storage and cache, else Idle

worker == <<now, apiKey, kv, pc, startedAt, pending, cronDue, misses, run, ended, log, resp, seen>>
vars == <<worker, input, output, page>>

(***************************************************************************)
(* Bounds of the model.                                                    *)
(***************************************************************************)
MaxTime == 200      \* the clock stops here
MaxTs == 2          \* feed header timestamps range over 0..MaxTs
MaxFetchSec == 1    \* seconds the upstream takes to answer, unless it times out
MaxPutDelay == 1    \* seconds a KV put may take to be applied
MaxMisses == 2      \* the miss counter saturates here
MaxKeyLen == 2      \* API keys of the redaction specification

(***************************************************************************)
(* Program constants.                                                      *)
(***************************************************************************)
TTL == 180          \* expirationTtl of realtime:status
TimeoutMs == 10000  \* AbortSignal.timeout(10000)
CronPeriod == 120   \* cron trigger cadence, seconds

TimeoutSec == TimeoutMs \div 1000

None == "<none>"
NoRun == [kind |-> "none"]
NoLog == [kind |-> "none"]
NoResp == [status |-> 0]
Idle == [kind |-> "idle"]

(***************************************************************************)
(* Strings.                                                                *)
(***************************************************************************)

\* String.prototype.includes
Includes(s, p) ==
    \E i \in 1..(Len(s) - Len(p) + 1) : SubSeq(s, i, i + Len(p) - 1) = p

\* String.prototype.replaceAll with a string pattern: the matches are taken
\* left to right and do not overlap, the replacement is not rescanned.
RECURSIVE replaceAll(_, _, _)
replaceAll(s, p, r) ==
    LET hits == {i \in 1..(Len(s) - Len(p) + 1) : SubSeq(s, i, i + Len(p) - 1) = p}
    IN  IF Len(p) = 0 \/ hits = {} THEN s
        ELSE LET i == CHOOSE h \in hits : \A g \in hits : h <= g
             IN  SubSeq(s, 1, i - 1) \o r
                    \o replaceAll(SubSeq(s, i + Len(p), Len(s)), p, r)

\* Characters that encodeURIComponent leaves alone.
UriUnreserved ==
    "ABCDEFGHIJKLMNOPQRSTUVWXYZabcdefghijklmnopqrstuvwxyz0123456789-_.!~*'()"

\* Characters that the application/x-www-form-urlencoded serializer of
\* URLSearchParams leaves alone.
FormUnreserved ==
    "ABCDEFGHIJKLMNOPQRSTUVWXYZabcdefghijklmnopqrstuvwxyz0123456789*-._"

\* Percent-encoding of the ASCII characters the model uses.
PercentByte(c) ==
    CASE c = " " -> "%20"
      [] c = "!" -> "%21"
      [] c = "%" -> "%25"
      [] c = "&" -> "%26"
      [] c = "+" -> "%2B"
      [] c = "/" -> "%2F"
      [] c = ":" -> "%3A"
      [] c = "=" -> "%3D"
      [] c = "?" -> "%3F"

RECURSIVE encodeURIComponent(_)
encodeURIComponent(s) ==
    IF Len(s) = 0 THEN ""
    ELSE LET c == SubSeq(s, 1, 1)
         IN  (IF Includes(UriUnreserved, c) THEN c ELSE PercentByte(c))
             \o encodeURIComponent(SubSeq(s, 2, Len(s)))

\* url.searchParams.set(name, value), as url.toString() serializes the value.
RECURSIVE formEncode(_)
formEncode(s) ==
    IF Len(s) = 0 THEN ""
    ELSE LET c == SubSeq(s, 1, 1)
         IN  (IF Includes(FormUnreserved, c) THEN c
              ELSE IF c = " " THEN "+" ELSE PercentByte(c))
             \o formEncode(SubSeq(s, 2, Len(s)))

Endpoints == <<"TripUpdates", "VehiclePositions", "ServiceAlerts">>
Feeds == 1..3

\* The request URL of fetchFeed(endpoint).
feedUrl(endpoint, key) ==
    "https://api.511.org/Transit/" \o endpoint
        \o "?api_key=" \o formEncode(key) \o "&agency=CT"

\* The catch block of scheduled(): the text handed to console.error.
redact(errStr, key) ==
    LET raw == IF key # "" THEN replaceAll(errStr, key, "REDACTED") ELSE errStr
        encodedKey == encodeURIComponent(key)
    IN  IF key # "" /\ encodedKey # key
        THEN replaceAll(raw, encodedKey, "REDACTED")
        ELSE raw

(***************************************************************************)
(* The feeds and the merged status.                                        *)
(***************************************************************************)

Max(a, b) == IF a >= b THEN a ELSE b

TripIds == {"T1"}

\* What parseFeed returns for a buffer that decodes: the header timestamp
\* (0 when the header has none), the trip entities, the positions by trip
\* id, the alerts.
ParsedFeeds(f) ==
    [t : 0..MaxTs,
     e : IF f = 1 THEN {<<>>, <<[i |-> "T1", st |-> 2, d |-> 120]>>} ELSE {<<>>},
     p : IF f = 2 THEN {"T1" :> [la |-> 3712346, lo |-> 0 - 12265432]} ELSE {<<>>},
     a : {<<>>}]

Malformed == [malformed |-> TRUE]

\* What the response body of feed f can be.
Buffers(f) == ParsedFeeds(f) \cup {Malformed}

\* An optional property of an object: absent unless `present`.
Field(present, name, value) == IF present THEN name :> value ELSE <<>>

\* buildRealtimeStatus keeping the first entity of a trip id.
buildRealtimeStatusFirstWins(tripUpdates, vehiclePositions, serviceAlerts) ==
    LET e == tripUpdates.e
        first(i) == CHOOSE j \in DOMAIN e :
                        e[j].i = i /\ \A k \in DOMAIN e : e[k].i = i => j <= k
    IN  [t      |-> Max(tripUpdates.t, Max(vehiclePositions.t, serviceAlerts.t)),
         byTrip |-> [i \in {e[j].i : j \in DOMAIN e} |->
                        LET entity == e[first(i)] IN
                           Field("d" \in DOMAIN entity, "d", entity.d)
                        @@ Field("t" \in DOMAIN entity, "t", entity.t)
                        @@ Field("s" \in DOMAIN entity /\ entity.s # "", "s", entity.s)
                        @@ Field("st" \in DOMAIN entity, "st", entity.st)
                        @@ Field(i \in DOMAIN vehiclePositions.p, "p",
                                 vehiclePositions.p[i])],
         a      |-> serviceAlerts.a]

\* buildRealtimeStatus taking the timestamp of the trip updates alone.
buildRealtimeStatusTripTimestamp(tripUpdates, vehiclePositions, serviceAlerts) ==
    LET e == tripUpdates.e
        last(i) == CHOOSE j \in DOMAIN e :
                       e[j].i = i /\ \A k \in DOMAIN e : e[k].i = i => k <= j
    IN  [t      |-> tripUpdates.t,
         byTrip |-> [i \in {e[j].i : j \in DOMAIN e} |->
                        LET entity == e[last(i)] IN
                           Field("d" \in DOMAIN entity, "d", entity.d)
                        @@ Field("t" \in DOMAIN entity, "t", entity.t)
                        @@ Field("s" \in DOMAIN entity /\ entity.s # "", "s", entity.s)
                        @@ Field("st" \in DOMAIN entity, "st", entity.st)
                        @@ Field(i \in DOMAIN vehiclePositions.p, "p",
                                 vehiclePositions.p[i])],
         a      |-> serviceAlerts.a]

\* buildRealtimeStatus(tripUpdates, vehiclePositions, serviceAlerts): a
\* later entity of a trip id replaces the record of an earlier one.
buildRealtimeStatus(tripUpdates, vehiclePositions, serviceAlerts) ==
    LET e == tripUpdates.e
        last(i) == CHOOSE j \in DOMAIN e :
                       e[j].i = i /\ \A k \in DOMAIN e : e[k].i = i => k <= j
    IN  [t      |-> Max(tripUpdates.t, Max(vehiclePositions.t, serviceAlerts.t)),
         byTrip |-> [i \in {e[j].i : j \in DOMAIN e} |->
                        LET entity == e[last(i)] IN
                           Field("d" \in DOMAIN entity, "d", entity.d)
                        @@ Field("t" \in DOMAIN entity, "t", entity.t)
                        @@ Field("s" \in DOMAIN entity /\ entity.s # "", "s", entity.s)
                        @@ Field("st" \in DOMAIN entity, "st", entity.st)
                        @@ Field(i \in DOMAIN vehiclePositions.p, "p",
                                 vehiclePositions.p[i])],
         a      |-> serviceAlerts.a]

(***************************************************************************)
(* The KV namespace TRANSIT_DATA.                                          *)
(***************************************************************************)

ScheduleData == "schedule:data"
ScheduleMeta == "schedule:meta"
RealtimeStatus == "realtime:status"
NamedKeys == {ScheduleData, ScheduleMeta, RealtimeStatus}

NoExpiry == 0
Null == [null |-> TRUE]

\* kvPut that drops expirationTtl.
kvPutForever(store, key, value, ttl, metadata) ==
    [k \in DOMAIN store \cup {key} |->
        IF k = key
        THEN [value      |-> value,
              metadata   |-> metadata,
              expiration |-> NoExpiry]
        ELSE store[k]]

\* put(key, value, {expirationTtl, metadata}): one whole-value replacement.
kvPut(store, key, value, ttl, metadata) ==
    [k \in DOMAIN store \cup {key} |->
        IF k = key
        THEN [value      |-> value,
              metadata   |-> metadata,
              expiration |-> IF ttl = 0 THEN NoExpiry ELSE now + ttl]
        ELSE store[k]]

\* Whether a get at `now` can still see the key.  The second at which the
\* expiration falls is the store's to decide.
kvAlive(key) ==
    IF key \notin DOMAIN kv THEN {FALSE}
    ELSE IF kv[key].expiration = NoExpiry \/ now < kv[key].expiration THEN {TRUE}
    ELSE IF now > kv[key].expiration THEN {FALSE}
    ELSE {TRUE, FALSE}

\* get / getWithMetadata
kvGet(key, alive) ==
    IF alive THEN [value |-> kv[key].value, metadata |-> kv[key].metadata]
    ELSE [value |-> Null, metadata |-> Null]

(***************************************************************************)
(* The read API: fetch(request, env).                                      *)
(***************************************************************************)

Methods == {"GET", "OPTIONS", "POST"}
Paths == {"/api/schedule", "/api/meta", "/api/realtime", "/"}

\* `W/"${metadata.t}"`
etagOf(t) == "W/\"" \o ToString(t) \o "\""

\* The requests of the model.  If-None-Match is sent on GET /api/realtime
\* only; no other branch of fetch() reads a request header.
Requests ==
    {r \in [method : Methods, path : Paths, inm : {None} \cup {etagOf(t) : t \in 0..MaxTs}] :
        r.inm # None => (r.method = "GET" /\ r.path = "/api/realtime")}

\* The key a path is served from.
keyOf(path) ==
    CASE path = "/api/schedule" -> ScheduleData
      [] path = "/api/meta"     -> ScheduleMeta
      [] path = "/api/realtime" -> RealtimeStatus
      [] OTHER                  -> None

\* { ...corsHeaders, ...securityHeaders }
headers ==
    [acao |-> "*", acam |-> "GET, HEAD, OPTIONS", nosniff |-> TRUE]

NoBody == [kind |-> "null"]
Text(t) == [kind |-> "text", text |-> t]
Stored(v) == [kind |-> "stored", value |-> v]

Response(request, status, body, ctype, cc, etag) ==
    [status |-> status, body |-> body, headers |-> headers,
     ctype |-> ctype, cc |-> cc, etag |-> etag, request |-> request]

\* The /api/schedule branch of fetch(); `read` is what the KV read returned
\* (a [value, metadata] pair, both Null on a miss).
fetchSchedule(request, read) ==
    IF read.value = Null
    THEN Response(request, 404, Text("{\"error\":\"No schedule data\"}"),
                  "application/json", None, None)
    ELSE Response(request, 200, Stored(read.value),
                  "application/json", "public, max-age=3600", None)

\* fetchMeta with the Cache-Control of /api/schedule.
fetchMetaHourly(request, read) ==
    IF read.value = Null
    THEN Response(request, 404, Text("{\"error\":\"No meta data\"}"),
                  "application/json", None, None)
    ELSE Response(request, 200, Stored(read.value),
                  "application/json", "public, max-age=3600", None)

\* The /api/meta branch of fetch().
fetchMeta(request, read) ==
    IF read.value = Null
    THEN Response(request, 404, Text("{\"error\":\"No meta data\"}"),
                  "application/json", None, None)
    ELSE Response(request, 200, Stored(read.value),
                  "application/json", "public, max-age=60", None)

\* fetchRealtime comparing If-None-Match with the strong form of the tag.
fetchRealtimeStrongEtag(request, read) ==
    IF read.value = Null
    THEN Response(request, 404, Text("{\"error\": \"No data\"}"),
                  "application/json", None, None)
    ELSE IF read.metadata # Null /\ read.metadata.t # 0
    THEN LET etag == etagOf(read.metadata.t)
         IN  IF request.inm = "\"" \o ToString(read.metadata.t) \o "\""
             THEN Response(request, 304, NoBody,
                           None, "public, max-age=30", etag)
             ELSE Response(request, 200, Stored(read.value),
                           "application/json", "public, max-age=30", etag)
    ELSE Response(request, 200, Stored(read.value),
                  "application/json", "public, max-age=30", None)

\* The /api/realtime branch of fetch().
fetchRealtime(request, read) ==
    IF read.value = Null
    THEN Response(request, 404, Text("{\"error\": \"No data\"}"),
                  "application/json", None, None)
    ELSE IF read.metadata # Null /\ read.metadata.t # 0
    THEN LET etag == etagOf(read.metadata.t)
         IN  IF request.inm = etag
             THEN Response(request, 304, NoBody,
                           None, "public, max-age=30", etag)
             ELSE Response(request, 200, Stored(read.value),
                           "application/json", "public, max-age=30", etag)
    ELSE Response(request, 200, Stored(read.value),
                  "application/json", "public, max-age=30", None)

\* fetch(request, env): the response to `request` when the KV read it makes
\* returns `read`.
fetch(request, read) ==
    IF request.method = "OPTIONS"
    THEN Response(request, 204, NoBody, None, None, None)
    ELSE IF request.path = "/api/schedule" THEN fetchSchedule(request, read)
    ELSE IF request.path = "/api/meta" THEN fetchMeta(request, read)
    ELSE IF request.path = "/api/realtime" THEN fetchRealtime(request, read)
    ELSE Response(request, 404, Text("Not found"), None, None, None)

\* The KV read fetch() makes for `request`.
kvRead(request, alive) ==
    IF keyOf(request.path) = None \/ request.method = "OPTIONS"
    THEN [value |-> Null, metadata |-> Null]
    ELSE kvGet(keyOf(request.path), alive)

\* Whether the key behind `request` can be seen at `now`.
Alive(request) ==
    IF keyOf(request.path) = None THEN {FALSE} ELSE kvAlive(keyOf(request.path))

\* One request, handled start to end: at most one KV read, no write.
Fetch(request, alive) ==
    /\ resp' = fetch(request, kvRead(request, alive))
    /\ log' = NoLog
    /\ ended' = NoRun
    /\ UNCHANGED <<now, apiKey, kv, pc, startedAt, pending, cronDue, misses, run, seen, input, output, page>>

\* A polling client: as Fetch, and the client keeps a 200 that carries an
\* ETag, with what was stored when it was served.
Poll(request, alive) ==
    /\ resp' = fetch(request, kvRead(request, alive))
    /\ seen' = IF resp'.status = 200 /\ resp'.etag # None
               THEN [status |-> 200, etag |-> resp'.etag, cc |-> resp'.cc,
                     body |-> resp'.body, entry |-> kv[RealtimeStatus]]
               ELSE seen
    /\ log' = NoLog
    /\ ended' = NoRun
    /\ UNCHANGED <<now, apiKey, kv, pc, startedAt, pending, cronDue, misses, run, input, output, page>>

(***************************************************************************)
(* The daily GitHub Action uploads the schedule bundle and its metadata.   *)
(***************************************************************************)

scheduleDoc(key) ==
    IF key = ScheduleData
    THEN [doc |-> "StaticSchedule", v |-> "sha-1"]
    ELSE [doc |-> "ScheduleMeta", v |-> "sha-1", e |-> 20261231, sv |-> 1]

Upload(key) ==
    /\ key \notin DOMAIN kv
    /\ kv' = kvPut(kv, key, scheduleDoc(key), 0, Null)
    /\ log' = NoLog
    /\ ended' = NoRun
    /\ resp' = NoResp
    /\ UNCHANGED <<now, apiKey, pc, startedAt, pending, cronDue, misses, run, seen, input, output, page>>

(***************************************************************************)
(* The realtime worker: scheduled(event, env).                             *)
(***************************************************************************)

\* What is stored under realtime:status, expired or not.
rtEntry == IF RealtimeStatus \in DOMAIN kv THEN kv[RealtimeStatus] ELSE Null

Missed == IF misses < MaxMisses THEN misses + 1 ELSE misses

\* The summary of a run that ends: what it went through (taken from `r`),
\* and whether the store took its put.
Ended(r, stored) ==
    [kind |-> "run", key |-> r.key, fetched |-> r.fetched, decoded |-> r.decoded,
     puts |-> r.puts, stored |-> stored, before |-> r.before]

\* A run that has just read its configuration.
Started(key) ==
    [key |-> key, fetched |-> FALSE, decoded |-> FALSE, puts |-> 0, before |-> rtEntry]

\* console.error('Error fetching/parsing GTFS-RT:', redacted)
ErrorLog(errStr) ==
    [kind |-> "error", label |-> "Error fetching/parsing GTFS-RT:",
     text |-> redact(errStr, apiKey)]

\* Lines 14-18 and the start of the three fetches.
ScheduledStart ==
    /\ pc = "idle"
    /\ cronDue
    /\ cronDue' = FALSE
    /\ resp' = NoResp
    /\ IF apiKey = ""
       THEN /\ log' = [kind |-> "error", label |-> "Missing TRANSIT_511_API_KEY", text |-> ""]
            /\ ended' = Ended(Started(FALSE), FALSE)
            /\ misses' = Missed
            /\ UNCHANGED <<pc, startedAt, run>>
       ELSE /\ pc' = "fetch"
            /\ startedAt' = now
            /\ run' = Started(TRUE)
            /\ log' = NoLog
            /\ ended' = NoRun
            /\ UNCHANGED misses
    /\ UNCHANGED <<now, apiKey, kv, pending, seen, input, output, page>>

\* The cron trigger at `now` is not delivered.
CronSkipped ==
    /\ pc = "idle"
    /\ cronDue
    /\ cronDue' = FALSE
    /\ misses' = Missed
    /\ log' = NoLog
    /\ ended' = NoRun
    /\ resp' = NoResp
    /\ UNCHANGED <<now, apiKey, kv, pc, startedAt, pending, run, seen, input, output, page>>

\* The error one failing fetchFeed(endpoint) raises.
FetchErrors(endpoint) ==
    [non2xx  |-> "Error: " \o endpoint \o ": 500",
     neterr  |-> "TypeError: fetch failed: " \o feedUrl(endpoint, apiKey),
     timeout |-> "TimeoutError: The operation was aborted due to timeout"]

\* ScheduledFetchRejected with a catch block that publishes an empty status.
ScheduledFetchRejectedPublishesEmpty(f, kind) ==
    /\ pc = "fetch"
    /\ IF kind = "timeout"
       THEN now - startedAt = TimeoutSec
       ELSE now - startedAt < TimeoutSec /\ now - startedAt <= MaxFetchSec
    /\ pc' = "idle"
    /\ kv' = kvPut(kv, RealtimeStatus, [t |-> 0, byTrip |-> <<>>, a |-> <<>>], TTL, [t |-> 0])
    /\ log' = ErrorLog(FetchErrors(Endpoints[f])[kind])
    /\ ended' = Ended(run, FALSE)
    /\ misses' = Missed
    /\ run' = NoRun
    /\ resp' = NoResp
    /\ UNCHANGED <<now, apiKey, startedAt, pending, cronDue, seen, input, output, page>>

\* Promise.all rejects: feed f answered non-2xx, failed on the network, or
\* the shared deadline passed.
ScheduledFetchRejected(f, kind) ==
    /\ pc = "fetch"
    /\ IF kind = "timeout"
       THEN now - startedAt = TimeoutSec
       ELSE now - startedAt < TimeoutSec /\ now - startedAt <= MaxFetchSec
    /\ pc' = "idle"
    /\ log' = ErrorLog(FetchErrors(Endpoints[f])[kind])
    /\ ended' = Ended(run, FALSE)
    /\ misses' = Missed
    /\ run' = NoRun
    /\ resp' = NoResp
    /\ UNCHANGED <<now, apiKey, kv, startedAt, pending, cronDue, seen, input, output, page>>

\* Promise.all resolves with the three buffers; they are parsed and merged
\* and the put is issued, or a parse throws.
ScheduledFetched(bufs) ==
    /\ pc = "fetch"
    /\ now - startedAt < TimeoutSec
    /\ now - startedAt <= MaxFetchSec
    /\ resp' = NoResp
    /\ IF \E f \in Feeds : bufs[f] = Malformed
       THEN /\ pc' = "idle"
            /\ log' = ErrorLog("Error: Unimplemented type: 7")
            /\ ended' = Ended([run EXCEPT !.fetched = TRUE], FALSE)
            /\ misses' = Missed
            /\ run' = NoRun
            /\ UNCHANGED <<pending, startedAt>>
       ELSE /\ pc' = "put"
            /\ pending' = buildRealtimeStatus(bufs[1], bufs[2], bufs[3])
            /\ startedAt' = now
            /\ run' = [run EXCEPT !.fetched = TRUE, !.decoded = TRUE, !.puts = @ + 1]
            /\ log' = NoLog
            /\ ended' = NoRun
            /\ UNCHANGED misses
    /\ UNCHANGED <<now, apiKey, kv, cronDue, seen, input, output, page>>

\* ScheduledPut that also stamps schedule:meta with the feed timestamp.
ScheduledPutTouchesMeta ==
    /\ pc = "put"
    /\ kv' = kvPut(kvPut(kv, RealtimeStatus, pending, TTL, [t |-> pending.t]),
                   ScheduleMeta, [doc |-> "ScheduleMeta", v |-> "sha-1", realtimeAge |-> 0],
                   0, Null)
    /\ pc' = "idle"
    /\ log' = [kind |-> "info", label |-> "Updated RT", text |-> "ts=" \o ToString(pending.t)]
    /\ ended' = Ended(run, TRUE)
    /\ misses' = 0
    /\ run' = NoRun
    /\ pending' = Null
    /\ resp' = NoResp
    /\ UNCHANGED <<now, apiKey, startedAt, cronDue, seen, input, output, page>>

\* ScheduledPut with a TTL shorter than the cron period.
ScheduledPutShortTtl ==
    /\ pc = "put"
    /\ kv' = kvPut(kv, RealtimeStatus, pending, CronPeriod - 20, [t |-> pending.t])
    /\ pc' = "idle"
    /\ log' = [kind |-> "info", label |-> "Updated RT", text |-> "ts=" \o ToString(pending.t)]
    /\ ended' = Ended(run, TRUE)
    /\ misses' = 0
    /\ run' = NoRun
    /\ pending' = Null
    /\ resp' = NoResp
    /\ UNCHANGED <<now, apiKey, startedAt, cronDue, seen, input, output, page>>

\* ScheduledPut with the wall clock as metadata instead of status.t.
ScheduledPutClockMetadata ==
    /\ pc = "put"
    /\ kv' = kvPut(kv, RealtimeStatus, pending, TTL, [t |-> now])
    /\ pc' = "idle"
    /\ log' = [kind |-> "info", label |-> "Updated RT", text |-> "ts=" \o ToString(pending.t)]
    /\ ended' = Ended(run, TRUE)
    /\ misses' = 0
    /\ run' = NoRun
    /\ pending' = Null
    /\ resp' = NoResp
    /\ UNCHANGED <<now, apiKey, startedAt, cronDue, seen, input, output, page>>

\* ScheduledPut that keeps what is stored when its feed timestamp is higher.
ScheduledPutIfNewer ==
    /\ pc = "put"
    /\ kv' = IF rtEntry # Null /\ rtEntry.value.t > pending.t
             THEN kv
             ELSE kvPut(kv, RealtimeStatus, pending, TTL, [t |-> pending.t])
    /\ pc' = "idle"
    /\ log' = [kind |-> "info", label |-> "Updated RT", text |-> "ts=" \o ToString(pending.t)]
    /\ ended' = Ended(run, TRUE)
    /\ misses' = 0
    /\ run' = NoRun
    /\ pending' = Null
    /\ resp' = NoResp
    /\ UNCHANGED <<now, apiKey, startedAt, cronDue, seen, input, output, page>>

\* The store applies the put and the run logs its summary.  The stored
\* value is JSON.stringify(status); the model keeps the status itself, as
\* the read API hands the stored text back without reading it.
ScheduledPut ==
    /\ pc = "put"
    /\ kv' = kvPut(kv, RealtimeStatus, pending, TTL, [t |-> pending.t])
    /\ pc' = "idle"
    /\ log' = [kind |-> "info", label |-> "Updated RT", text |-> "ts=" \o ToString(pending.t)]
    /\ ended' = Ended(run, TRUE)
    /\ misses' = 0
    /\ run' = NoRun
    /\ pending' = Null
    /\ resp' = NoResp
    /\ UNCHANGED <<now, apiKey, startedAt, cronDue, seen, input, output, page>>

\* The store rejects the put; the catch block logs it.
ScheduledPutFailed ==
    /\ pc = "put"
    /\ pc' = "idle"
    /\ log' = ErrorLog("Error: KV PUT failed: 500 Internal Server Error")
    /\ ended' = Ended(run, FALSE)
    /\ misses' = Missed
    /\ run' = NoRun
    /\ pending' = Null
    /\ resp' = NoResp
    /\ UNCHANGED <<now, apiKey, kv, startedAt, cronDue, seen, input, output, page>>

\* One second passes.  A cron instant is served before the clock moves on;
\* a fetch does not outlive the shared deadline.
Tick ==
    /\ now < MaxTime
    /\ ~cronDue
    /\ pc = "fetch" => now - startedAt < TimeoutSec
    /\ pc = "put" => now - startedAt < MaxPutDelay
    /\ now' = now + 1
    /\ cronDue' = ((now + 1) % CronPeriod = 0)
    /\ log' = NoLog
    /\ ended' = NoRun
    /\ resp' = NoResp
    /\ UNCHANGED <<apiKey, kv, pc, startedAt, pending, misses, run, seen, input, output, page>>

(***************************************************************************)
(* The worker under its cron trigger and its clients.                      *)
(***************************************************************************)

ConfiguredKeys == {"", "k3y"}

InitWorker ==
    /\ now = 0
    /\ kv = [k \in {} |-> Null]
    /\ pc = "idle"
    /\ startedAt = 0
    /\ pending = Null
    /\ cronDue = TRUE
    /\ misses = 0
    /\ run = NoRun
    /\ ended = NoRun
    /\ log = NoLog
    /\ resp = NoResp
    /\ seen = NoResp

\* No offline computation takes part in the worker's behaviours.
InitIdle == input = Idle /\ output = Idle /\ page = Idle

Init ==
    /\ apiKey \in ConfiguredKeys
    /\ InitWorker
    /\ InitIdle

\* The requests of the clients that poll the realtime status.
RealtimeGets == {r \in Requests : r.method = "GET" /\ r.path = "/api/realtime"}

Scheduled ==
    \/ ScheduledStart
    \/ CronSkipped
    \/ \E f \in Feeds, kind \in {"non2xx", "neterr", "timeout"} : ScheduledFetchRejected(f, kind)
    \/ \E tu \in Buffers(1), vp \in Buffers(2), sa \in Buffers(3) : ScheduledFetched(<<tu, vp, sa>>)
    \/ ScheduledPut
    \/ ScheduledPutFailed

Next ==
    \/ Scheduled
    \/ Tick
    \/ \E request \in RealtimeGets : \E alive \in Alive(request) : Fetch(request, alive)

Spec == Init /\ [][Next]_vars

(***************************************************************************)
(* The read API over the three keys, seen at the cron instants: the clock  *)
(* jumps from one cron instant to the next.                                *)
(***************************************************************************)

Sleep ==
    /\ pc = "idle"
    /\ ~cronDue
    /\ now + CronPeriod <= MaxTime
    /\ now' = now + CronPeriod - (now % CronPeriod)
    /\ cronDue' = TRUE
    /\ log' = NoLog
    /\ ended' = NoRun
    /\ resp' = NoResp
    /\ UNCHANGED <<apiKey, kv, pc, startedAt, pending, misses, run, seen, input, output, page>>

NextApi ==
    \/ Scheduled
    \/ Sleep
    \/ \E key \in {ScheduleData, ScheduleMeta} : Upload(key)
    \/ \E request \in Requests : \E alive \in Alive(request) : Fetch(request, alive)
    \/ \E request \in RealtimeGets : \E alive \in kvAlive(RealtimeStatus) : Poll(request, alive)

SpecApi == Init /\ [][NextApi]_vars

(***************************************************************************)
(* The failure paths of one run, for every API key up to MaxKeyLen         *)
(* characters.                                                             *)
(***************************************************************************)

KeyChars == {"k", "E", "D", "&", " "}

RECURSIVE StringsUpTo(_)
StringsUpTo(n) ==
    IF n = 0 THEN {""}
    ELSE LET shorter == StringsUpTo(n - 1)
         IN  shorter \cup {s \o c : s \in shorter, c \in KeyChars}

InitLog ==
    /\ apiKey \in StringsUpTo(MaxKeyLen)
    /\ InitWorker
    /\ InitIdle

NextLog ==
    \/ ScheduledStart
    \/ \E f \in Feeds, kind \in {"non2xx", "neterr"} : ScheduledFetchRejected(f, kind)
    \/ \E tu \in Buffers(1), vp \in Buffers(2), sa \in Buffers(3) : ScheduledFetched(<<tu, vp, sa>>)
    \/ ScheduledPut
    \/ ScheduledPutFailed

SpecLog == InitLog /\ [][NextLog]_vars

(***************************************************************************)
(* Properties of the scheduled run and of the read API.                    *)
(***************************************************************************)

\* The last step answered a GET /api/realtime.
RealtimeAnswered ==
    /\ resp.status # 0
    /\ resp.request.method = "GET"
    /\ resp.request.path = "/api/realtime"

\* Seconds since the stored realtime:status was written.
rtAge == now - (rtEntry.expiration - 180)

AllSucceeded == ended.key /\ ended.fetched /\ ended.decoded

\* C1: a run that ends has issued exactly one put to realtime:status if the
\* key was configured, the three fetches resolved and the three payloads
\* decoded, and none otherwise; a run that ends in any other way leaves
\* what is stored under realtime:status as it was when the run began.
C1_OnePutIffAllSucceeded ==
    ended.kind = "run" =>
        /\ ended.puts = (IF AllSucceeded THEN 1 ELSE 0)
        /\ ended.stored => AllSucceeded
        /\ ~AllSucceeded => rtEntry = ended.before

\* A run fails on a fetch while an earlier run's value is stored, and the
\* value is still there.
C1_FailedRunKeepsValue ==
    /\ ended.kind = "run"
    /\ ended.key /\ ~ended.fetched
    /\ ended.before # Null
    /\ rtEntry = ended.before

\* C2: the text logged by the failure path of a run contains neither the
\* configured API key nor encodeURIComponent of it.
C2_LogHidesKey ==
    (log.kind = "error" /\ apiKey # "") =>
        /\ ~Includes(log.text, apiKey)
        /\ ~Includes(log.text, encodeURIComponent(apiKey))

C4_OneMissSurvivable ==
    (RealtimeAnswered /\ rtEntry # Null /\ misses <= 1) => resp.status # 404

\* C4: once a value has been stored, a GET /api/realtime is not answered
\* 404 while no run has been missed since the last successful one; a 404
\* takes at least one missed run and at least 180 s since the last write.
C4_NoMissNoGap ==
    /\ (RealtimeAnswered /\ rtEntry # Null /\ misses = 0) => resp.status # 404
    /\ (RealtimeAnswered /\ rtEntry # Null /\ resp.status = 404) =>
          (misses >= 1 /\ rtAge >= 180)

\* The second run has rewritten the value in time and a GET past the first
\* value's expiration is answered 200.
C4_RefreshedInTime ==
    /\ RealtimeAnswered
    /\ resp.status = 200
    /\ misses = 0
    /\ now >= 180 + MaxFetchSec + MaxPutDelay + 1

C6_NewTagAfterRewrite ==
    (/\ RealtimeAnswered
     /\ seen # NoResp
     /\ resp.request.inm = seen.etag
     /\ rtEntry # seen.entry
     /\ rtEntry.value.t # seen.entry.value.t
     /\ now < rtEntry.expiration) =>
        /\ resp.status = 200
        /\ resp.body = Stored(rtEntry.value)
        /\ resp.etag = etagOf(rtEntry.value.t)

\* The last step answered a GET on one of the three endpoints.
EndpointAnswered ==
    /\ resp.status # 0
    /\ resp.request.method = "GET"
    /\ keyOf(resp.request.path) # None

\* The key behind the answered request is stored and not expired / is not
\* stored or is expired.
KeyPresent ==
    LET key == keyOf(resp.request.path)
    IN  /\ key \in DOMAIN kv
        /\ kv[key].expiration = NoExpiry \/ now < kv[key].expiration

KeyAbsent ==
    LET key == keyOf(resp.request.path)
    IN  \/ key \notin DOMAIN kv
        \/ kv[key].expiration # NoExpiry /\ now > kv[key].expiration

maxAge ==
    [p \in {"/api/schedule", "/api/meta", "/api/realtime"} |->
        CASE p = "/api/schedule" -> "public, max-age=3600"
          [] p = "/api/meta"     -> "public, max-age=60"
          [] OTHER               -> "public, max-age=30"]

NotFoundJson ==
    /\ resp.status = 404
    /\ resp.ctype = "application/json"
    /\ resp.body.kind = "text"
    /\ Includes(resp.body.text, "{\"error\":")

OkStored ==
    /\ resp.status = 200
    /\ resp.body = Stored(kv[keyOf(resp.request.path)].value)
    /\ resp.ctype = "application/json"
    /\ resp.cc = maxAge[resp.request.path]

C8_OtherMethodOrPath404 ==
    resp.status # 0 =>
        /\ resp.request.method = "OPTIONS" =>
              (resp.status = 204 /\ resp.headers.acao = "*")
        /\ (resp.request.method \notin {"GET", "OPTIONS"}
              \/ (resp.request.method # "OPTIONS" /\ keyOf(resp.request.path) = None)) =>
              resp.status = 404

\* C9: a step of the read API leaves the KV namespace as it was; a step of
\* a scheduled run leaves every key but realtime:status as it was; no key
\* besides the three named ones ever exists.
C9_Ownership ==
    [][/\ resp' # NoResp => kv' = kv
       /\ (pc' # pc \/ cronDue' # cronDue) =>
             /\ DOMAIN kv' \subseteq DOMAIN kv \cup {RealtimeStatus}
             /\ \A k \in DOMAIN kv \ {RealtimeStatus} : k \in DOMAIN kv' /\ kv'[k] = kv[k]
       /\ DOMAIN kv' \subseteq NamedKeys]_vars

\* The three keys are stored, a run has just written realtime:status
\* beside the uploaded schedule keys.
C9_RunBesideSchedule ==
    /\ DOMAIN kv = NamedKeys
    /\ ended.kind = "run"
    /\ ended.stored

\* C10: what is stored under realtime:status is the (value, metadata) pair
\* of one put, so the metadata t is the t of the stored body; a 200 to a
\* GET /api/realtime carries a whole stored status, and its ETag, if any,
\* is that of the body's own t, also while a run has its next put pending.
C10_PairOfOneRun ==
    /\ rtEntry # Null => rtEntry.metadata = [t |-> rtEntry.value.t]
    /\ (RealtimeAnswered /\ resp.status = 200) =>
          /\ resp.body = Stored(rtEntry.value)
          /\ resp.etag = IF resp.body.value.t # 0
                         THEN etagOf(resp.body.value.t) ELSE None

\* A reader is answered while a run holds a status with another timestamp
\* that it has yet to store.
C10_ReadDuringPut ==
    /\ RealtimeAnswered
    /\ resp.status = 200
    /\ pc = "put"
    /\ pending.t # resp.body.value.t
    /\ resp.etag = etagOf(resp.body.value.t)

(***************************************************************************)
(* parseFeed (src/worker/src/gtfs-realtime.d.ts): one entity of a decoded  *)
(* FeedMessage at a time.  The generated reader gives an absent scalar its *)
(* default (0, "") and an absent message null.                             *)
(***************************************************************************)

MaxUpdates == 2     \* stop_time_updates per trip update
MaxMicro == 9       \* coordinates range over MaxMicro + 1 consecutive micro-degrees

\* StopTimeEvent values of the feeds: [delay, time], or null.
Departures ==
    {Null} \cup [delay : {0, 600}, time : {0, 1000}]
Arrivals ==
    {Null, [delay |-> 0, time |-> 0], [delay |-> 300, time |-> 0]}

\* The stop_time_update at position j: its stop id, if any, is Sj.
StopTimeUpdates(j) ==
    [stop_id : {"", "S" \o ToString(j)}, departure : Departures, arrival : Arrivals]

RECURSIVE UpdateLists(_)
UpdateLists(n) ==
    IF n = 0 THEN {<<>>}
    ELSE LET shorter == UpdateLists(n - 1)
         IN  shorter \cup {Append(l, u) : l \in {k \in shorter : Len(k) = n - 1},
                                          u \in StopTimeUpdates(n)}

TripUpdates ==
    [trip_id : {"", "T1"}, delay : {0 - 120, 0, 120}, stop_time_update : UpdateLists(MaxUpdates)]

\* Lines 85-90: the first stop_time_update that carries a stop id.
RECURSIVE firstStop(_, _)
firstStop(updates, j) ==
    IF j > Len(updates) THEN ""
    ELSE IF updates[j].stop_id # "" THEN updates[j].stop_id
    ELSE firstStop(updates, j + 1)

\* update.departure || update.arrival
eventOf(update) ==
    IF update.departure # Null THEN update.departure ELSE update.arrival

\* Lines 93-111: the scan for the first non-zero delay and the first
\* non-zero time, from position j with the loop variables as given.
RECURSIVE scanUpdates(_, _, _, _, _)
scanUpdates(updates, j, delay, time, stopId) ==
    IF j > Len(updates) THEN [delay |-> delay, time |-> time, stopId |-> stopId]
    ELSE LET update == updates[j]
             event == eventOf(update)
         IN  IF event = Null THEN scanUpdates(updates, j + 1, delay, time, stopId)
             ELSE LET takeDelay == event.delay # 0 /\ delay = 0
                      delay1 == IF takeDelay THEN event.delay ELSE delay
                      stop1 == IF takeDelay /\ update.stop_id # ""
                               THEN update.stop_id ELSE stopId
                      takeTime == event.time # 0 /\ time = 0
                      time1 == IF takeTime THEN event.time ELSE time
                      stop2 == IF takeTime /\ update.stop_id # ""
                               THEN update.stop_id ELSE stop1
                  IN  IF delay1 # 0 /\ time1 # 0
                      THEN [delay |-> delay1, time |-> time1, stopId |-> stop2]
                      ELSE scanUpdates(updates, j + 1, delay1, time1, stop2)

\* Lines 73-128: the entities pushed to e for one trip_update.
parseTripUpdate(tu) ==
    IF tu.trip_id = "" THEN <<>>
    ELSE LET updates == tu.stop_time_update
             scan == IF Len(updates) > 0
                     THEN scanUpdates(updates, 1, 0, 0, firstStop(updates, 1))
                     ELSE [delay |-> 0, time |-> 0, stopId |-> ""]
             delay == IF scan.delay = 0 /\ tu.delay # 0 THEN tu.delay ELSE scan.delay
         IN  << [i |-> tu.trip_id, st |-> 2]
                  @@ Field(delay # 0, "d", delay)
                  @@ Field(scan.time # 0, "t", scan.time)
                  @@ Field(scan.stopId # "", "s", scan.stopId) >>

\* A float coordinate: a whole number of micro-degrees, or not finite.
Finite(u) == [finite |-> TRUE, u |-> u]
NotFinite == [finite |-> FALSE]

\* Math.round(x * 100000) for x of u micro-degrees: the nearest integer,
\* a tie going up.
mathRound5(u) == (u + 5) \div 10

\* Math.round(x * 100000) / 100000, in units of 1e-5 degree.
round5(x) == IF x.finite THEN Finite(mathRound5(x.u)) ELSE NotFinite

Latitudes == {Finite(37123450 + k) : k \in 0..MaxMicro} \cup {NotFinite}
Longitudes ==
    {Finite(0 - 122015620 - k) : k \in 0..MaxMicro}
        \cup {Finite(0 - 122654321), NotFinite}

VehiclePositions ==
    [trip_id : {"", "T1"},
     position : {Null} \cup [latitude : Latitudes, longitude : Longitudes,
                             bearing : {0, 90}, speed : {0, 12}]]

\* parseVehicle copying bearing and speed whatever their value.
parseVehicleKeepZero(v) ==
    IF v.trip_id # "" /\ v.position # Null
    THEN LET la == round5(v.position.latitude)
             lo == round5(v.position.longitude)
         IN  IF la.finite /\ lo.finite
             THEN v.trip_id :> [la |-> la.u, lo |-> lo.u,
                                b |-> v.position.bearing, sp |-> v.position.speed]
             ELSE <<>>
    ELSE <<>>

\* Lines 134-151: the positions map after one vehicle entity.
parseVehicle(v) ==
    IF v.trip_id # "" /\ v.position # Null
    THEN LET la == round5(v.position.latitude)
             lo == round5(v.position.longitude)
         IN  IF la.finite /\ lo.finite
             THEN v.trip_id :> ([la |-> la.u, lo |-> lo.u]
                                  @@ Field(v.position.bearing # 0, "b", v.position.bearing)
                                  @@ Field(v.position.speed # 0, "sp", v.position.speed))
             ELSE <<>>
    ELSE <<>>

Parsed(kind, value) == [kind |-> kind, value |-> value]

ParseTripUpdate ==
    /\ input.kind = "trip_update"
    /\ output = Idle
    /\ output' = Parsed("e", parseTripUpdate(input.entity))
    /\ UNCHANGED <<worker, input, page>>

ParseVehicle ==
    /\ input.kind = "vehicle"
    /\ output = Idle
    /\ output' = Parsed("p", parseVehicle(input.entity))
    /\ UNCHANGED <<worker, input, page>>

InitFeed ==
    /\ apiKey = ""
    /\ InitWorker
    /\ input \in [kind : {"trip_update"}, entity : TripUpdates]
                    \cup [kind : {"vehicle"}, entity : VehiclePositions]
    /\ output = Idle
    /\ page = Idle

NextFeed == ParseTripUpdate \/ ParseVehicle

SpecFeed == InitFeed /\ [][NextFeed]_vars

(***************************************************************************)
(* Properties of parseFeed.                                                *)
(***************************************************************************)

\* A trip update with a trip id has been parsed.
TripParsed ==
    /\ output.kind = "e"
    /\ input.entity.trip_id # ""

\* The position of the first stop_time_update whose departure event, or
\* else arrival event, carries a non-zero delay; 0 when there is none.
firstDelayed(updates) ==
    LET delayed == {j \in 1..Len(updates) :
                      eventOf(updates[j]) # Null /\ eventOf(updates[j]).delay # 0}
    IN  IF delayed = {} THEN 0 ELSE CHOOSE j \in delayed : \A k \in delayed : j <= k

\* C11: for a trip update with a trip id, the emitted d is the delay of
\* the first stop_time_update whose departure (else arrival) event has a
\* non-zero delay, and the emitted s is the stop id of that update.
C11_FirstDelayAndItsStop ==
    LET updates == input.entity.stop_time_update
        j == firstDelayed(updates)
        ent == output.value[1]
    IN  (TripParsed /\ j # 0) =>
            /\ "d" \in DOMAIN ent /\ ent.d = eventOf(updates[j]).delay
            /\ updates[j].stop_id # "" =>
                  ("s" \in DOMAIN ent /\ ent.s = updates[j].stop_id)

\* C12: when no stop_time_update has a non-zero delay, the emitted d is
\* the trip-level delay, omitted when zero, and the emitted s is the stop
\* id of the first stop_time_update that has one, omitted when none has.
C12_TripDelayAndFirstStop ==
    LET updates == input.entity.stop_time_update
        ent == output.value[1]
    IN  (TripParsed /\ firstDelayed(updates) = 0) =>
            /\ IF input.entity.delay # 0
               THEN "d" \in DOMAIN ent /\ ent.d = input.entity.delay
               ELSE "d" \notin DOMAIN ent
            /\ IF firstStop(updates, 1) # ""
               THEN "s" \in DOMAIN ent /\ ent.s = firstStop(updates, 1)
               ELSE "s" \notin DOMAIN ent

\* u micro-degrees to the nearest 1e-5 degree, a tie going away from zero.
halfAwayFromZero(u) ==
    IF u >= 0 THEN (u + 5) \div 10 ELSE 0 - ((0 - u + 5) \div 10)

\* C13: a vehicle position with a trip id and finite coordinates is
\* published with la and lo rounded to five decimal places, ties away
\* from zero; one with a coordinate that is not finite is discarded.
C13_HalfAwayFromZero ==
    (output.kind = "p" /\ input.entity.trip_id # "" /\ input.entity.position # Null) =>
        LET pos == input.entity.position
        IN  IF pos.latitude.finite /\ pos.longitude.finite
            THEN /\ DOMAIN output.value = {input.entity.trip_id}
                 /\ output.value[input.entity.trip_id].la = halfAwayFromZero(pos.latitude.u)
                 /\ output.value[input.entity.trip_id].lo = halfAwayFromZero(pos.longitude.u)
            ELSE output.value = <<>>

(***************************************************************************)
(* The static schedule builder: parseGtfsZip and deduplicatePatterns       *)
(* (src/scripts/validate-schedule.test.ts, lines 181-484).  An archive is  *)
(* its CSV tables, each a sequence of rows.  Station names, coordinates    *)
(* and the fare tables are copied from the rows and are left out.          *)
(***************************************************************************)

MaxStops == 2       \* stop_times rows per trip

\* stops.txt: four parent stations, one of them without platforms, three
\* platforms and one stop without a parent.  Stop ids are free text.
StopsTxt ==
    << [stop_id |-> "a",   location_type |-> "1", parent_station |-> "",    zone_id |-> ""],
       [stop_id |-> "a,a", location_type |-> "1", parent_station |-> "",    zone_id |-> "9"],
       [stop_id |-> "a→a", location_type |-> "1", parent_station |-> "",    zone_id |-> ""],
       [stop_id |-> "z",   location_type |-> "1", parent_station |-> "",    zone_id |-> ""],
       [stop_id |-> "a0",  location_type |-> "0", parent_station |-> "a",   zone_id |-> ""],
       [stop_id |-> "a1",  location_type |-> "0", parent_station |-> "a",   zone_id |-> "1"],
       [stop_id |-> "c1",  location_type |-> "0", parent_station |-> "a,a", zone_id |-> "2"],
       [stop_id |-> "r1",  location_type |-> "0", parent_station |-> "a→a", zone_id |-> "3"],
       [stop_id |-> "u",   location_type |-> "0", parent_station |-> "",    zone_id |-> "1"] >>

PlatformIds == {"a1", "c1", "r1", "u"}

RECURSIVE StopLists(_)
StopLists(n) ==
    IF n = 0 THEN {<<>>}
    ELSE LET shorter == StopLists(n - 1)
         IN  shorter \cup {Append(l, x) : l \in {k \in shorter : Len(k) = n - 1},
                                          x \in PlatformIds}

\* The archives of the model: the stops of trips t1 and t2, and the
\* service id of t1.
Archives ==
    [stops1 : StopLists(MaxStops), stops2 : StopLists(MaxStops),
     service1 : {"wk", "hol", "gone"}]

Digits == "0123456789"

\* parseInt(s, 10) of a string of decimal digits.
RECURSIVE parseInt(_)
parseInt(s) ==
    IF Len(s) = 0 THEN 0
    ELSE LET last == SubSeq(s, Len(s), Len(s))
             d == CHOOSE i \in 0..9 : SubSeq(Digits, i + 1, i + 1) = last
         IN  10 * parseInt(SubSeq(s, 1, Len(s) - 1)) + d

\* String.prototype.split(':')
RECURSIVE split(_, _)
split(s, sep) ==
    LET hits == {i \in 1..Len(s) : SubSeq(s, i, i) = sep}
    IN  IF hits = {} THEN <<s>>
        ELSE LET i == CHOOSE h \in hits : \A g \in hits : h <= g
             IN  <<SubSeq(s, 1, i - 1)>> \o split(SubSeq(s, i + 1, Len(s)), sep)

\* "HH:MM:SS" to minutes from midnight.
timeToMinutes(time) ==
    LET parts == split(time, ":")
    IN  IF Len(parts) < 2 THEN 0
        ELSE parseInt(parts[1]) * 60 + parseInt(parts[2])

\* Array.prototype.join(',')
RECURSIVE join(_, _)
join(strs, sep) ==
    IF Len(strs) = 0 THEN ""
    ELSE IF Len(strs) = 1 THEN strs[1]
    ELSE strs[1] \o sep \o join(Tail(strs), sep)

ArrivalTimes == <<"08:00:00", "08:30:00", "25:05:00", "">>

\* The stop_times.txt rows of a trip that calls at `stops`, in stop order.
stopTimeRows(tripId, stops) ==
    [j \in 1..Len(stops) |->
        [trip_id |-> tripId, stop_id |-> stops[j], stop_sequence |-> ToString(j),
         arrival_time |-> ArrivalTimes[j], departure_time |-> ArrivalTimes[j]]]

Reverse(rows) == [j \in 1..Len(rows) |-> rows[Len(rows) + 1 - j]]

\* stop_times.txt: the rows of t2, then those of t1 from last stop to first.
stopTimesTxt(archive) ==
    stopTimeRows("t2", archive.stops2) \o Reverse(stopTimeRows("t1", archive.stops1))

\* trips.txt: t1 has a train number, t2 has none, t3 has no stop_times.
tripsTxt(archive) ==
    << [trip_id |-> "t1", service_id |-> archive.service1, trip_short_name |-> "101"],
       [trip_id |-> "t2", service_id |-> "wk", trip_short_name |-> ""],
       [trip_id |-> "t3", service_id |-> "wk", trip_short_name |-> "103"] >>

CalendarTxt ==
    << [service_id |-> "wk", monday |-> "1", tuesday |-> "1", wednesday |-> "1",
        thursday |-> "1", friday |-> "1", saturday |-> "0", sunday |-> "0",
        start_date |-> "20260101", end_date |-> "20261231"] >>

CalendarDatesTxt ==
    << [service_id |-> "hol", date |-> "20260704", exception_type |-> "1"] >>

\* Lines 284-324: parent stations with their platforms, those without
\* platforms removed.
buildStationMap(stops) ==
    LET parents == {stops[i].stop_id : i \in {k \in DOMAIN stops : stops[k].location_type = "1"}}
        children(p) == SelectSeq(stops, LAMBDA r : r.location_type = "0"
                                                  /\ r.parent_station # ""
                                                  /\ r.parent_station = p)
        zoned(p) == SelectSeq(children(p), LAMBDA r : r.zone_id # "")
    IN  [p \in {q \in parents : Len(children(q)) > 0} |->
            [z   |-> IF Len(zoned(p)) > 0 THEN zoned(p)[1].zone_id ELSE "",
             ids |-> [j \in 1..Len(children(p)) |-> children(p)[j].stop_id]]]

\* Lines 326-332 and stopToStation.get(stopId); "" for undefined.
stopToStation(stationMap, stopId) ==
    LET owners == {p \in DOMAIN stationMap :
                     \E j \in DOMAIN stationMap[p].ids : stationMap[p].ids[j] = stopId}
    IN  IF owners = {} THEN "" ELSE CHOOSE p \in owners : TRUE

\* Keys of a Map filled from `rows`, in insertion order.
RECURSIVE firstSeen(_, _)
firstSeen(rows, seen0) ==
    IF Len(rows) = 0 THEN seen0
    ELSE firstSeen(Tail(rows),
                   IF \E j \in DOMAIN seen0 : seen0[j] = rows[1].trip_id
                   THEN seen0 ELSE Append(seen0, rows[1].trip_id))

\* Array.prototype.sort by parseInt(stop_sequence): stable insertion.
RECURSIVE sortBySequence(_)
sortBySequence(rows) ==
    IF Len(rows) <= 1 THEN rows
    ELSE LET rest == sortBySequence(SubSeq(rows, 1, Len(rows) - 1))
             last == rows[Len(rows)]
             before == SelectSeq(rest, LAMBDA r : parseInt(r.stop_sequence)
                                                    <= parseInt(last.stop_sequence))
             after == SelectSeq(rest, LAMBDA r : parseInt(r.stop_sequence)
                                                   > parseInt(last.stop_sequence))
         IN  before \o <<last>> \o after

\* Lines 335-347: the sorted stop_times of one trip.
tripStopTimes(stopTimes, tripId) ==
    sortBySequence(SelectSeq(stopTimes, LAMBDA r : r.trip_id = tripId))

\* Lines 353-367: the rows of a trip whose stop belongs to a station.
knownRows(stationMap, times) ==
    SelectSeq(times, LAMBDA r : stopToStation(stationMap, r.stop_id) # "")

tripStopSequence(stationMap, times) ==
    LET rows == knownRows(stationMap, times)
    IN  [j \in 1..Len(rows) |-> stopToStation(stationMap, rows[j].stop_id)]

tripTimes(stationMap, times) ==
    LET rows == knownRows(stationMap, times)
    IN  [k \in 1..(2 * Len(rows)) |->
            IF k % 2 = 1 THEN timeToMinutes(rows[(k + 1) \div 2].arrival_time)
            ELSE timeToMinutes(rows[k \div 2].departure_time)]

\* deduplicatePatterns(tripStops): the loop over the trips from position
\* j of `order`, with the maps as filled so far.
RECURSIVE deduplicatePatterns(_, _, _, _, _, _)
deduplicatePatterns(order, tripStops, j, signatureToId, patterns, tripPatternMap) ==
    IF j > Len(order)
    THEN [patterns |-> patterns, tripPatternMap |-> tripPatternMap]
    ELSE LET tripId == order[j]
             stops == tripStops[tripId]
             sig == join(stops, ",")
             known == sig \in DOMAIN signatureToId
             patternId == IF known THEN signatureToId[sig]
                          ELSE "p" \o ToString(Cardinality(DOMAIN patterns))
         IN  deduplicatePatterns(order, tripStops, j + 1,
                 IF known THEN signatureToId ELSE signatureToId @@ (sig :> patternId),
                 IF known THEN patterns ELSE patterns @@ (patternId :> stops),
                 tripPatternMap @@ (tripId :> patternId))

\* Lines 373-387: the emitted trips, in trips.txt order.
buildTrips(trips, tripPatternMap, times) ==
    LET kept == SelectSeq(trips, LAMBDA t : t.trip_id \in DOMAIN tripPatternMap)
    IN  [k \in 1..Len(kept) |->
            [i  |-> IF kept[k].trip_short_name # "" THEN kept[k].trip_short_name
                    ELSE kept[k].trip_id,
             s  |-> kept[k].service_id,
             p  |-> tripPatternMap[kept[k].trip_id],
             st |-> times[kept[k].trip_id]]]

\* Lines 390-405.
buildCalendar(calendar) ==
    [svc \in {calendar[k].service_id : k \in DOMAIN calendar} |->
        LET cal == calendar[CHOOSE k \in DOMAIN calendar :
                              /\ calendar[k].service_id = svc
                              /\ \A l \in DOMAIN calendar :
                                    calendar[l].service_id = svc => l <= k]
        IN  [days  |-> << parseInt(cal.monday), parseInt(cal.tuesday),
                          parseInt(cal.wednesday), parseInt(cal.thursday),
                          parseInt(cal.friday), parseInt(cal.saturday),
                          parseInt(cal.sunday) >>,
             start |-> parseInt(cal.start_date),
             end   |-> parseInt(cal.end_date)]]

\* Lines 407-416.
buildExceptions(calendarDates) ==
    [svc \in {calendarDates[k].service_id : k \in DOMAIN calendarDates} |->
        LET rows == SelectSeq(calendarDates, LAMBDA r : r.service_id = svc)
        IN  [k \in 1..Len(rows) |->
                [date |-> parseInt(rows[k].date), type |-> parseInt(rows[k].exception_type)]]]

\* `${patternStops[i]}→${patternStops[j]}`
pairKey(a, b) == a \o "→" \o b

Repeat(x, n) == [k \in 1..n |-> x]

\* Lines 445-459: what the loop has pushed to pairIndex[key] after the
\* trips from position k on.
RECURSIVE pairEntries(_, _, _, _)
pairEntries(outputTrips, patterns, key, k) ==
    IF k > Len(outputTrips) THEN <<>>
    ELSE LET trip == outputTrips[k]
             stops == patterns[trip.p]
             hits == {ij \in (DOMAIN stops) \X (DOMAIN stops) :
                         ij[1] < ij[2] /\ pairKey(stops[ij[1]], stops[ij[2]]) = key}
         IN  Repeat(trip.i, Cardinality(hits))
                \o pairEntries(outputTrips, patterns, key, k + 1)

buildPairIndex(outputTrips, patterns) ==
    LET keys == UNION {{pairKey(patterns[outputTrips[k].p][i], patterns[outputTrips[k].p][j]) :
                           i \in DOMAIN patterns[outputTrips[k].p],
                           j \in DOMAIN patterns[outputTrips[k].p]} : k \in DOMAIN outputTrips}
    IN  [key \in {x \in keys : Len(pairEntries(outputTrips, patterns, x, 1)) > 0} |->
            pairEntries(outputTrips, patterns, key, 1)]

\* createHash('sha256').update(zipBuffer).digest('hex'): a name of the
\* archive bytes, taken to be free of collisions.
sha256(archive) == [sha256 |-> archive]

maxEndDate(calendarEntries) ==
    IF DOMAIN calendarEntries = {} THEN 0
    ELSE LET ends == {calendarEntries[svc].end : svc \in DOMAIN calendarEntries} \cup {0}
         IN  CHOOSE e \in ends : \A f \in ends : f <= e

\* parseGtfsZip(zipBuffer), run when Date.now() is `clock` seconds.
parseGtfsZip(archive, clock) ==
    LET stationMap == buildStationMap(StopsTxt)
        stopTimes == stopTimesTxt(archive)
        order == firstSeen(stopTimes, <<>>)
        ids == {order[j] : j \in DOMAIN order}
        sequences == [t \in ids |->
                         tripStopSequence(stationMap, tripStopTimes(stopTimes, t))]
        times == [t \in ids |-> tripTimes(stationMap, tripStopTimes(stopTimes, t))]
        dedup == deduplicatePatterns(order, sequences, 1, <<>>, <<>>, <<>>)
        outputTrips == buildTrips(tripsTxt(archive), dedup.tripPatternMap, times)
        calendarEntries == buildCalendar(CalendarTxt)
    IN  [m |-> [v |-> sha256(archive), e |-> maxEndDate(calendarEntries), u |-> clock],
         p |-> dedup.patterns,
         t |-> outputTrips,
         r |-> [c |-> calendarEntries, e |-> buildExceptions(CalendarDatesTxt)],
         s |-> stationMap,
         x |-> buildPairIndex(outputTrips, dedup.patterns)]

Clocks == {1767225600, 1767225601}

\* The builder runs on the archive.
Build ==
    /\ input.kind = "archive"
    /\ output = Idle
    /\ \E clock \in Clocks :
          output' = [kind |-> "built", schedule |-> parseGtfsZip(input.archive, clock)]
    /\ UNCHANGED <<worker, input, page>>

\* The builder runs on the same archive once more, not earlier.
BuildAgain ==
    /\ input.kind = "archive"
    /\ output.kind = "built"
    /\ \E clock \in {c \in Clocks : c >= output.schedule.m.u} :
          output' = [kind |-> "rebuilt", schedule |-> output.schedule,
                     again |-> parseGtfsZip(input.archive, clock)]
    /\ UNCHANGED <<worker, input, page>>

InitBuild ==
    /\ apiKey = ""
    /\ InitWorker
    /\ input \in [kind : {"archive"}, archive : Archives]
    /\ output = Idle
    /\ page = Idle

NextBuild == Build \/ BuildAgain

SpecBuild == InitBuild /\ [][NextBuild]_vars

(***************************************************************************)
(* Properties of the schedule builder.                                     *)
(***************************************************************************)

Built == output.kind = "built"

\* The trips of the archive that have stop_times, in stop_times.txt order,
\* and the canonical station sequence of each.
tripOrder == firstSeen(stopTimesTxt(input.archive), <<>>)

canonicalSequence(tripId) ==
    tripStopSequence(buildStationMap(StopsTxt),
                     tripStopTimes(stopTimesTxt(input.archive), tripId))

\* The trips.txt rows behind the emitted trips, in the order emitted.
emittedRows ==
    SelectSeq(tripsTxt(input.archive),
              LAMBDA t : \E j \in DOMAIN tripOrder : tripOrder[j] = t.trip_id)

\* The number of distinct sequences met before the first trip that has
\* the sequence of the trip at position j of tripOrder.
firstOccurrenceRank(j) ==
    LET first == CHOOSE f \in 1..j :
                    /\ canonicalSequence(tripOrder[f]) = canonicalSequence(tripOrder[j])
                    /\ \A g \in 1..(f - 1) :
                          canonicalSequence(tripOrder[g]) # canonicalSequence(tripOrder[j])
    IN  Cardinality({canonicalSequence(tripOrder[g]) : g \in 1..(first - 1)})

\* C14: two trips have the same pattern id exactly when their canonical
\* station sequences are equal; the pattern map has one entry per distinct
\* sequence; the ids are p0, p1, ... in order of first occurrence.
C14_SamePatternIffSameSequence ==
    Built =>
        LET schedule == output.schedule
            sequences == {canonicalSequence(tripOrder[j]) : j \in DOMAIN tripOrder}
        IN  /\ \A k, l \in DOMAIN schedule.t :
                  (schedule.t[k].p = schedule.t[l].p)
                     <=> (canonicalSequence(emittedRows[k].trip_id)
                             = canonicalSequence(emittedRows[l].trip_id))
            /\ Cardinality(DOMAIN schedule.p) = Cardinality(sequences)
            /\ \A k \in DOMAIN schedule.t :
                  \E j \in DOMAIN tripOrder :
                     /\ tripOrder[j] = emittedRows[k].trip_id
                     /\ schedule.t[k].p = "p" \o ToString(firstOccurrenceRank(j))

\* C15: the stop-times array of every emitted trip is twice as long as
\* the pattern the trip references.
C15_StopTimesTwicePattern ==
    Built =>
        \A k \in DOMAIN output.schedule.t :
            Len(output.schedule.t[k].st)
               = 2 * Len(output.schedule.p[output.schedule.t[k].p])

\* C16: every station of every pattern is in the station map, every
\* trip's pattern is in the pattern map, every trip's service is in the
\* calendar or in the exceptions.
C16_ReferentialIntegrity ==
    Built =>
        LET schedule == output.schedule
        IN  /\ \A pid \in DOMAIN schedule.p : \A j \in DOMAIN schedule.p[pid] :
                  schedule.p[pid][j] \in DOMAIN schedule.s
            /\ \A k \in DOMAIN schedule.t :
                  /\ schedule.t[k].p \in DOMAIN schedule.p
                  /\ schedule.t[k].s \in DOMAIN schedule.r.c \cup DOMAIN schedule.r.e

\* Trip k's pattern lists station a at a position before station b.
ListsBefore(schedule, k, a, b) ==
    LET stops == schedule.p[schedule.t[k].p]
    IN  \E i, j \in DOMAIN stops : i < j /\ stops[i] = a /\ stops[j] = b

\* C17: a trip id is in x["a→b"] exactly when it is the id of an emitted
\* trip whose pattern lists a before b; in particular a trip with two or
\* more stops is under "first→last", and every id in the index is the id
\* of an emitted trip.
C17_PairIndexIsClosure ==
    Built =>
        LET schedule == output.schedule
            tripIds == {schedule.t[k].i : k \in DOMAIN schedule.t}
            indexed(key) == IF key \in DOMAIN schedule.x
                            THEN {schedule.x[key][n] : n \in DOMAIN schedule.x[key]}
                            ELSE {}
        IN  /\ \A a, b \in DOMAIN schedule.s : \A id \in tripIds \cup indexed(pairKey(a, b)) :
                  (id \in indexed(pairKey(a, b)))
                     <=> (\E k \in DOMAIN schedule.t :
                             schedule.t[k].i = id /\ ListsBefore(schedule, k, a, b))
            /\ \A k \in DOMAIN schedule.t :
                  LET stops == schedule.p[schedule.t[k].p]
                  IN  Len(stops) >= 2 =>
                         schedule.t[k].i \in indexed(pairKey(stops[1], stops[Len(stops)]))
            /\ \A key \in DOMAIN schedule.x : indexed(key) \subseteq tripIds

\* C18: a second run of the builder on the same archive, at the same or a
\* later time, gives the same output and the same version hash.
C18_SameArchiveSameOutput ==
    output.kind = "rebuilt" =>
        /\ output.again = output.schedule
        /\ output.again.m.v = output.schedule.m.v

\* ======================================================================
\* Schedule validator: validateSchedule and its command-line entry point
\* ======================================================================

\* By how much the generated schedules may exceed the validator's minimum
\* counts (they always also fall one short of them).
MaxSurplus == 0

MinEndDate == 20260101
MinStations == 10
MinTrips == 10
MinPatterns == 2

\* JSON values whose type the validator inspects carry their type.
Number(n) == [number |-> n]
String(s) == [string |-> s]
typeof(x) == IF "number" \in DOMAIN x THEN "number" ELSE "string"

Has(obj, name) == name \in DOMAIN obj

stationId(k) == "s" \o ToString(k)

\* schedule.s: an object keyed by station id.
stationsOf(n) ==
    [id \in {stationId(k) : k \in 1..n} |-> [n |-> "Station " \o id]]

\* schedule.p: an object in key order, p0, p1, ...; with `bad`, the last
\* pattern names a station that is not in schedule.s.
patternsOf(n, bad) ==
    [k \in 1..n |->
        [id |-> "p" \o ToString(k - 1),
         stops |-> IF bad /\ k = n THEN <<stationId(1), "zz">>
                   ELSE IF k % 2 = 1
                        THEN <<stationId(1), stationId(2), stationId(3)>>
                        ELSE <<stationId(3), stationId(2), stationId(1)>>]]

TripFaults == {"none", "exception", "pattern", "service", "times"}

\* schedule.t: n trips over pattern p0 and service wk; the last trip carries
\* the fault.
tripsOf(n, fault) ==
    [k \in 1..n |->
        [i |-> "t" \o ToString(k),
         p |-> IF k = n /\ fault = "pattern" THEN "px" ELSE "p0",
         s |-> IF k = n /\ fault = "service" THEN "zz"
               ELSE IF k = n /\ fault = "exception" THEN "hol" ELSE "wk",
         st |-> IF k = n /\ fault = "times"
                THEN <<480, 480, 490, 491, 500>>
                ELSE <<480, 480, 490, 491, 500, 500>>]]

Metas ==
    {[v |-> v, e |-> e, sv |-> sv] :
        v \in {"", "abc"}, e \in {20251231, MinEndDate},
        sv \in {Number(1), String("1")}}
    \cup {[e |-> e, sv |-> sv] : e \in {MinEndDate}, sv \in {Number(1), String("1")}}
    \cup {[v |-> v, sv |-> sv] : v \in {"", "abc"}, sv \in {Number(1)}}
    \cup {[v |-> v, e |-> e] : v \in {"abc"}, e \in {20251231, MinEndDate}}
    \cup {<<>>}

Rules == [c |-> ("wk" :> [s |-> 20260101, e |-> 20261231]),
          e |-> ("hol" :> <<[d |-> 20260704, t |-> 1]>>)]

OrderedLists ==
    {<<>>, <<stationId(1), stationId(2)>>, <<stationId(1), "zz">>}

Counts(min) == (min - 1)..(min + MaxSurplus)

\* The documents handed to the validator: every field may be absent.
Schedules ==
    {  Field(hasM, "m", m)
    @@ [s |-> stationsOf(ns), t |-> tripsOf(nt, fault)]
    @@ Field(np > 0, "p", patternsOf(np, bad))
    @@ Field(hasR, "r", Rules)
    @@ Field(hasO, "o", o) :
        hasM \in BOOLEAN, m \in Metas, ns \in Counts(MinStations),
        nt \in Counts(MinTrips), fault \in TripFaults,
        np \in {0} \cup Counts(MinPatterns), bad \in BOOLEAN,
        hasR \in BOOLEAN, hasO \in BOOLEAN, o \in OrderedLists }

RECURSIVE concat(_)
concat(lists) ==
    IF lists = <<>> THEN <<>> ELSE Head(lists) \o concat(Tail(lists))

\* `${x}` of a number that may be undefined.
template(obj, name) ==
    IF Has(obj, name) THEN ToString(obj[name]) ELSE "undefined"

metadataErrors(schedule) ==
    IF ~Has(schedule, "m") THEN <<"Missing metadata (m)">>
    ELSE LET m == schedule.m IN
           (IF ~Has(m, "v") \/ m.v = ""
            THEN <<"Missing version hash (m.v)">> ELSE <<>>)
        \o (IF ~Has(m, "e") \/ m.e = 0 \/ m.e < MinEndDate
            THEN <<"Invalid end date (m.e): " \o template(m, "e")>> ELSE <<>>)
        \o (IF ~Has(m, "sv") \/ typeof(m.sv) # "number"
            THEN <<"Missing schema version (m.sv)">> ELSE <<>>)

\* schedule.x || {} and schedule.x || []
keys(schedule, name) ==
    IF Has(schedule, name) THEN DOMAIN schedule[name] ELSE {}

entries(schedule, name) ==
    IF Has(schedule, name) THEN schedule[name] ELSE <<>>

patternIdsOf(schedule) ==
    {entries(schedule, "p")[k].id : k \in 1..Len(entries(schedule, "p"))}

serviceIdsOf(schedule) ==
    IF Has(schedule, "r")
    THEN keys(schedule.r, "c") \cup keys(schedule.r, "e")
    ELSE {}

volumeErrors(schedule) ==
    LET stationCount == Cardinality(keys(schedule, "s"))
        tripCount == Len(entries(schedule, "t"))
        patternCount == Len(entries(schedule, "p"))
    IN    (IF stationCount < MinStations
           THEN <<"Too few stations: " \o ToString(stationCount) \o " (expected ~31)">>
           ELSE <<>>)
       \o (IF tripCount < MinTrips
           THEN <<"Too few trips: " \o ToString(tripCount) \o " (expected ~70+)">>
           ELSE <<>>)
       \o (IF patternCount < MinPatterns
           THEN <<"Too few patterns: " \o ToString(patternCount) \o " (need at least NB/SB)">>
           ELSE <<>>)

patternErrors(schedule) ==
    LET stationIds == keys(schedule, "s")
        p == entries(schedule, "p")
    IN concat([k \in 1..Len(p) |->
           concat([j \in 1..Len(p[k].stops) |->
               IF p[k].stops[j] \in stationIds THEN <<>>
               ELSE <<"Pattern " \o p[k].id \o " references unknown station: "
                      \o p[k].stops[j]>>])])

\* schedule.p[trip.p]
patternOf(schedule, id) ==
    LET p == schedule.p
        at == {k \in 1..Len(p) : p[k].id = id}
    IN IF at = {} THEN <<>> ELSE <<p[CHOOSE k \in at : TRUE].stops>>

timesErrors(schedule, trip) ==
    LET pattern == patternOf(schedule, trip.p) IN
    IF pattern # <<>> /\ Len(trip.st) # Len(pattern[1]) * 2
    THEN <<"Trip " \o trip.i \o " stop times length (" \o ToString(Len(trip.st))
           \o ") mismatch pattern " \o trip.p \o " ("
           \o ToString(Len(pattern[1]) * 2) \o ")">>
    ELSE <<>>

referenceErrors(schedule, trip) ==
       (IF trip.p \in patternIdsOf(schedule) THEN <<>>
        ELSE <<"Trip " \o trip.i \o " references unknown pattern: " \o trip.p>>)
    \o (IF trip.s \in serviceIdsOf(schedule) THEN <<>>
        ELSE <<"Trip " \o trip.i \o " references unknown service: " \o trip.s>>)

tripErrorsUncheckedTimes(schedule) ==
    LET t == entries(schedule, "t") IN
    concat([k \in 1..Len(t) |-> referenceErrors(schedule, t[k])])

tripErrors(schedule) ==
    LET t == entries(schedule, "t") IN
    concat([k \in 1..Len(t) |->
        referenceErrors(schedule, t[k]) \o timesErrors(schedule, t[k])])

orderedErrors(schedule) ==
    IF ~Has(schedule, "o") \/ schedule.o = <<>>
    THEN <<"Missing or empty ordered station list (o)">>
    ELSE concat([k \in 1..Len(schedule.o) |->
             IF schedule.o[k] \in keys(schedule, "s") THEN <<>>
             ELSE <<"Ordered list references unknown station: " \o schedule.o[k]>>])

\* Reading schedule.p[trip.p] when the document has no p is a TypeError:
\* the function then returns nothing.
Thrown == [threw |-> "TypeError"]

throws(schedule) == ~Has(schedule, "p") /\ entries(schedule, "t") # <<>>

validateScheduleUncheckedTimes(schedule) ==
    IF throws(schedule) THEN Thrown
    ELSE [errors |-> metadataErrors(schedule) \o volumeErrors(schedule)
                     \o patternErrors(schedule) \o tripErrorsUncheckedTimes(schedule)
                     \o orderedErrors(schedule)]

validateSchedule(schedule) ==
    IF throws(schedule) THEN Thrown
    ELSE [errors |-> metadataErrors(schedule) \o volumeErrors(schedule)
                     \o patternErrors(schedule) \o tripErrors(schedule)
                     \o orderedErrors(schedule)]

\* The files the command line may be pointed at.
Unreadable == [unreadable |-> TRUE]

Files == {Unreadable} \cup {[json |-> schedule] : schedule \in Schedules}

\* The exit code of main.
main(file) ==
    IF file = Unreadable THEN 1
    ELSE LET result == validateSchedule(file.json) IN
         IF result = Thrown THEN 1
         ELSE IF Len(result.errors) > 0 THEN 1 ELSE 0

ValidateSchedule ==
    /\ input.kind = "file"
    /\ output = Idle
    /\ input.file # Unreadable
    /\ output' = [kind |-> "validated", result |-> validateSchedule(input.file.json)]
    /\ UNCHANGED <<worker, input, page>>

Main ==
    /\ input.kind = "file"
    /\ output = Idle
    /\ output' = [kind |-> "exited", code |-> main(input.file)]
    /\ UNCHANGED <<worker, input, page>>

InitValidate ==
    /\ apiKey = ""
    /\ InitWorker
    /\ input \in [kind : {"file"}, file : Files]
    /\ output = Idle
    /\ page = Idle

NextValidate == ValidateSchedule \/ Main

SpecValidate == InitValidate /\ [][NextValidate]_vars

\* ----------------------------------------------------------------------
\* Claims about the validator
\* ----------------------------------------------------------------------

\* The expectations of a publishable schedule, stated on the document.
metadataHolds(schedule) ==
    /\ Has(schedule, "m")
    /\ Has(schedule.m, "v") /\ Len(schedule.m.v) > 0
    /\ Has(schedule.m, "e") /\ schedule.m.e >= MinEndDate
    /\ Has(schedule.m, "sv") /\ Has(schedule.m.sv, "number")

volumeHolds(schedule) ==
    /\ Has(schedule, "s") /\ Cardinality(DOMAIN schedule.s) >= 10
    /\ Has(schedule, "t") /\ Len(schedule.t) >= 10
    /\ Has(schedule, "p") /\ Len(schedule.p) >= 2

patternsHold(schedule) ==
    Has(schedule, "p") =>
        \A k \in 1..Len(schedule.p) : \A j \in 1..Len(schedule.p[k].stops) :
            Has(schedule, "s") /\ schedule.p[k].stops[j] \in DOMAIN schedule.s

tripsHold(schedule) ==
    Has(schedule, "t") =>
        \A k \in 1..Len(schedule.t) :
            LET trip == schedule.t[k] IN
            /\ Has(schedule, "p")
            /\ \E n \in 1..Len(schedule.p) :
                  /\ schedule.p[n].id = trip.p
                  /\ Len(trip.st) = 2 * Len(schedule.p[n].stops)
            /\ Has(schedule, "r")
            /\ trip.s \in DOMAIN schedule.r.c \cup DOMAIN schedule.r.e

orderedHolds(schedule) ==
    /\ Has(schedule, "o")
    /\ Len(schedule.o) > 0
    /\ \A k \in 1..Len(schedule.o) : schedule.o[k] \in DOMAIN schedule.s

\* C19: validateSchedule returns an empty list exactly when the metadata,
\* the minimum counts, the pattern stops, the trips' pattern, service and
\* stop-times length, and the ordered station list all meet the stated
\* expectations; and the command line exits successfully only if the list
\* is empty.
C19_EmptyIffAllHold ==
    /\ output.kind = "validated" =>
          LET schedule == input.file.json IN
          (output.result = [errors |-> <<>>]) <=>
              /\ metadataHolds(schedule)
              /\ volumeHolds(schedule)
              /\ patternsHold(schedule)
              /\ tripsHold(schedule)
              /\ orderedHolds(schedule)
    /\ output.kind = "exited" /\ output.code = 0 =>
          /\ input.file # Unreadable
          /\ validateSchedule(input.file.json) = [errors |-> <<>>]

\* A schedule that meets every expectation was validated with no error.
C19_ValidAccepted ==
    /\ output.kind = "validated"
    /\ output.result = [errors |-> <<>>]
    /\ Len(input.file.json.t) >= MinTrips

\* ======================================================================
\* Service calendar: isServiceActive
\* ======================================================================

\* The query dates are MaxDays + 1 consecutive days from Monday 2026-06-29.
MaxDays == 6

\* The longest list of exceptions of one service.
MaxExceptions == 2

\* A Date is its count of local days since 1970-01-01.
Dates == {[day |-> 20633 + k] : k \in 0..MaxDays}

\* The civil date of a day count.
civil(date) ==
    LET z == date.day + 719468
        era == z \div 146097
        doe == z - era * 146097
        yoe == (doe - doe \div 1460 + doe \div 36524 - doe \div 146096) \div 365
        doy == doe - (365 * yoe + yoe \div 4 - yoe \div 100)
        mp == (5 * doy + 2) \div 153
        mo == IF mp < 10 THEN mp + 3 ELSE mp - 9
    IN [y |-> yoe + era * 400 + (IF mo <= 2 THEN 1 ELSE 0),
        mo |-> mo,
        d |-> doy - (153 * mp + 2) \div 5 + 1]

getFullYear(date) == civil(date).y

\* 0 = January
getMonth(date) == civil(date).mo - 1

getDate(date) == civil(date).d

\* 0 = Sunday .. 6 = Saturday; 1970-01-01 was a Thursday.
getDay(date) == (date.day + 4) % 7

Weekdays == <<1, 1, 1, 1, 1, 0, 0>>

DayMasks == {Weekdays, <<0, 0, 0, 0, 0, 1, 1>>, <<0, 0, 0, 0, 0, 0, 1>>}

CalendarEntries ==
    {[days |-> days, start |-> range[1], end |-> range[2]] :
        days \in DayMasks,
        range \in {<<20260101, 20261231>>, <<20260701, 20260704>>,
                   <<20270101, 20271231>>}}

ExceptionEntries == [date : {20260704, 20260705}, type : {1, 2}]

RECURSIVE ExceptionLists(_)
ExceptionLists(n) ==
    IF n = 0 THEN {<<>>}
    ELSE ExceptionLists(n - 1)
         \cup {Append(list, ex) : list \in {l \in ExceptionLists(n - 1) : Len(l) = n - 1},
                                  ex \in ExceptionEntries}

\* The service rules of a schedule: svc1 may have a calendar entry, a list
\* of exceptions, both or neither.
ServiceRules ==
    {[c |-> Field(hasCal, "svc1", cal), e |-> Field(hasEx, "svc1", exceptions)] :
        hasCal \in BOOLEAN, cal \in CalendarEntries,
        hasEx \in BOOLEAN, exceptions \in ExceptionLists(MaxExceptions)}

ServiceIds == {"svc1", "svc2"}

RECURSIVE applyExceptions(_, _, _)
applyExceptions(exceptions, dateInt, active) ==
    IF exceptions = <<>> THEN active
    ELSE LET ex == Head(exceptions) IN
         applyExceptions(Tail(exceptions), dateInt,
             IF ex.date = dateInt /\ ex.type = 1 THEN TRUE
             ELSE IF ex.date = dateInt /\ ex.type = 2 THEN FALSE
             ELSE active)

isServiceActive(schedule, serviceId, date) ==
    LET dateInt == getFullYear(date) * 10000 + (getMonth(date) + 1) * 100 + getDate(date)
        jsDay == getDay(date)
        calDayIndex == IF jsDay = 0 THEN 6 ELSE jsDay - 1
        active == /\ Has(schedule.r.c, serviceId)
                  /\ dateInt >= schedule.r.c[serviceId].start
                  /\ dateInt <= schedule.r.c[serviceId].end
                  /\ schedule.r.c[serviceId].days[calDayIndex + 1] = 1
    IN IF Has(schedule.r.e, serviceId)
       THEN applyExceptions(schedule.r.e[serviceId], dateInt, active)
       ELSE active

IsServiceActive ==
    /\ input.kind = "query"
    /\ output = Idle
    /\ output' = [kind |-> "answered",
                  active |-> isServiceActive(input.schedule, input.serviceId, input.date)]
    /\ UNCHANGED <<worker, input, page>>

InitService ==
    /\ apiKey = ""
    /\ InitWorker
    /\ input \in [kind : {"query"}, schedule : [r : ServiceRules],
                  serviceId : ServiceIds, date : Dates]
    /\ output = Idle
    /\ page = Idle

NextService == IsServiceActive

SpecService == InitService /\ [][NextService]_vars

\* ----------------------------------------------------------------------
\* Claims about the service calendar
\* ----------------------------------------------------------------------

\* The queried date as YYYYMMDD and the position of its weekday in a mask
\* written monday..sunday.
queryDate == civil(input.date).y * 10000 + civil(input.date).mo * 100 + civil(input.date).d

maskPosition == ((input.date.day + 3) % 7) + 1

exceptionOfType(type) ==
    /\ Has(input.schedule.r.e, input.serviceId)
    /\ \E k \in DOMAIN input.schedule.r.e[input.serviceId] :
          /\ input.schedule.r.e[input.serviceId][k].date = queryDate
          /\ input.schedule.r.e[input.serviceId][k].type = type

calendarActive ==
    /\ Has(input.schedule.r.c, input.serviceId)
    /\ input.schedule.r.c[input.serviceId].start <= queryDate
    /\ queryDate <= input.schedule.r.c[input.serviceId].end
    /\ input.schedule.r.c[input.serviceId].days[maskPosition] = 1

\* C20: a service is reported active on a date iff a type 1 exception for
\* that service and date exists, or the date lies in the calendar entry's
\* range with its weekday set in the mask and no type 2 exception exists
\* for that service and date.
C20_ActiveIffCalendarAndExceptions ==
    output.kind = "answered" =>
        (output.active <=>
            \/ exceptionOfType(1)
            \/ calendarActive /\ ~exceptionOfType(2))

\* ----------------------------------------------------------------------
\* Claims about the builder's metadata and station map
\* ----------------------------------------------------------------------

\* C21: the metadata block of a built schedule consists of v, the SHA-256
\* digest of the archive, e, the maximum calendar end date, and sv, the
\* schema version.
C21_MetadataIsVersionEndSchema ==
    Built =>
        /\ DOMAIN output.schedule.m = {"v", "e", "sv"}
        /\ output.schedule.m.v = sha256(input.archive)
        /\ \A id \in DOMAIN output.schedule.r.c :
              output.schedule.r.c[id].end <= output.schedule.m.e
        /\ \E id \in DOMAIN output.schedule.r.c :
              output.schedule.r.c[id].end = output.schedule.m.e

\* The platform rows of stops.txt attached to a parent, in file order.
platformsOf(parent) ==
    SelectSeq(StopsTxt, LAMBDA row : row.location_type = "0" /\ row.parent_station = parent)

\* C23: in the station map a parent with its own zone keeps it, a parent
\* without one takes the zone of its first child that has one, every
\* platform with a known parent is in the parent's ids, and a parent
\* without children is absent.
C23_ZoneAndChildren ==
    Built =>
        \A i \in DOMAIN StopsTxt :
            LET row == StopsTxt[i]
                kids == platformsOf(row.stop_id)
                zoned == SelectSeq(kids, LAMBDA kid : kid.zone_id # "")
                s == output.schedule.s
            IN  row.location_type = "1" =>
                    IF Len(kids) = 0 THEN row.stop_id \notin DOMAIN s
                    ELSE /\ row.stop_id \in DOMAIN s
                         /\ \A j \in DOMAIN kids :
                               \E k \in DOMAIN s[row.stop_id].ids :
                                   s[row.stop_id].ids[k] = kids[j].stop_id
                         /\ s[row.stop_id].z =
                               IF row.zone_id # "" THEN row.zone_id
                               ELSE IF Len(zoned) > 0 THEN zoned[1].zone_id ELSE ""

\* ----------------------------------------------------------------------
\* Claims about the served metadata and the published realtime status
\* ----------------------------------------------------------------------

\* C22: a 200 answer of GET /api/meta carries v, e and sv of the stored
\* schedule:meta and a realtimeAge that is the number of seconds since the
\* feed timestamp of the stored realtime status.
C22_MetaCarriesRealtimeAge ==
    (EndpointAnswered /\ resp.request.path = "/api/meta" /\ resp.status = 200) =>
        /\ resp.body.kind = "stored"
        /\ resp.body.value.v = kv[ScheduleMeta].value.v
        /\ resp.body.value.e = kv[ScheduleMeta].value.e
        /\ resp.body.value.sv = kv[ScheduleMeta].value.sv
        /\ "realtimeAge" \in DOMAIN resp.body.value
        /\ rtEntry # Null => resp.body.value.realtimeAge = now - rtEntry.metadata.t

\* ======================================================================
\* Web client: the install prompt (InstallPrompt.svelte)
\* ======================================================================

\* The favorite pairs a user may save are pair 1 .. pair MaxPairs.
MaxPairs == 2

Pairs == 1..MaxPairs

\* Browsers: what the user agent string matches, and whether the browser
\* has BeforeInstallPromptEvent (and so fires beforeinstallprompt).
Browsers ==
    { [name |-> "Safari iOS",      ios |-> TRUE,  firefox |-> FALSE, android |-> FALSE, chrome |-> FALSE, bip |-> FALSE],
      [name |-> "Chrome iOS",      ios |-> TRUE,  firefox |-> FALSE, android |-> FALSE, chrome |-> TRUE,  bip |-> FALSE],
      [name |-> "Firefox Android", ios |-> FALSE, firefox |-> TRUE,  android |-> TRUE,  chrome |-> FALSE, bip |-> FALSE],
      [name |-> "Chrome Android",  ios |-> FALSE, firefox |-> FALSE, android |-> TRUE,  chrome |-> TRUE,  bip |-> TRUE],
      [name |-> "Firefox Desktop", ios |-> FALSE, firefox |-> TRUE,  android |-> FALSE, chrome |-> FALSE, bip |-> FALSE] }

checkPlatform(browser) ==
    IF browser.ios THEN "ios"
    ELSE IF browser.firefox /\ browser.android THEN "firefox"
    ELSE IF browser.bip \/ browser.chrome THEN "chromium"
    ELSE "other"

\* The component's $state at creation.
Unmounted ==
    [mounted |-> FALSE, listening |-> FALSE, deferredPrompt |-> FALSE,
     showPrompt |-> FALSE, platform |-> "other", hasFavorites |-> FALSE,
     dismissed |-> FALSE, isStandalone |-> FALSE, prompting |-> FALSE]

\* updateVisibility(): the component after the call.
updateVisibility(c) ==
    IF c.isStandalone \/ c.dismissed \/ ~c.hasFavorites
    THEN [c EXCEPT !.showPrompt = FALSE]
    ELSE IF c.platform = "chromium"
    THEN [c EXCEPT !.showPrompt = c.deferredPrompt]
    ELSE IF c.platform \in {"ios", "firefox"}
    THEN [c EXCEPT !.showPrompt = TRUE]
    ELSE c

\* dismiss(): the component after the call (the caller stores the flag).
dismiss(c) == [c EXCEPT !.dismissed = TRUE, !.showPrompt = FALSE]

Offline == UNCHANGED <<worker, input, output>>

\* onMount
Mount ==
    /\ page.kind = "prompt"
    /\ ~page.c.mounted
    /\ LET c == [page.c EXCEPT !.mounted = TRUE] IN
       page' = [page EXCEPT !.c =
           IF page.standalone THEN [c EXCEPT !.isStandalone = TRUE]
           ELSE IF page.storedDismissed THEN [c EXCEPT !.dismissed = TRUE]
           ELSE updateVisibility([c EXCEPT !.hasFavorites = page.favorites # {},
                                           !.platform = checkPlatform(page.browser),
                                           !.listening = TRUE])]
    /\ Offline

\* The browser fires beforeinstallprompt: onBeforeInstallPrompt.
BeforeInstallPrompt ==
    /\ page.kind = "prompt"
    /\ page.browser.bip
    /\ ~page.installed
    /\ page.c.listening
    /\ LET c == [page.c EXCEPT !.deferredPrompt = TRUE] IN
       page' = [page EXCEPT !.c = IF c.hasFavorites THEN updateVisibility(c) ELSE c]
    /\ Offline

\* toggleFavorite(pair) and, when the component listens, onFavoriteToggled.
ToggleFavorite(pair) ==
    /\ page.kind = "prompt"
    /\ LET newFavorites == IF pair \in page.favorites
                           THEN page.favorites \ {pair}
                           ELSE page.favorites \cup {pair}
       IN page' = [page EXCEPT
              !.favorites = newFavorites,
              !.c = IF page.c.listening
                    THEN updateVisibility([page.c EXCEPT !.hasFavorites = newFavorites # {}])
                    ELSE page.c]
    /\ Offline

\* The Install button of the banner: install() up to `await userChoice`.
Install ==
    /\ page.kind = "prompt"
    /\ page.c.showPrompt
    /\ page.c.deferredPrompt
    /\ ~page.c.prompting
    /\ page' = [page EXCEPT !.c.prompting = TRUE]
    /\ Offline

\* The user answers the browser's own prompt: install() after the await.
UserChoice(outcome) ==
    /\ page.kind = "prompt"
    /\ page.c.prompting
    /\ LET c == IF outcome = "accepted" THEN dismiss(page.c) ELSE page.c IN
       page' = [page EXCEPT
           !.c = [c EXCEPT !.deferredPrompt = FALSE, !.prompting = FALSE],
           !.storedDismissed = page.storedDismissed \/ outcome = "accepted",
           !.installed = page.installed \/ outcome = "accepted",
           !.choices = page.choices \cup {outcome}]
    /\ Offline

\* The Close button of the banner: dismiss().
Dismiss ==
    /\ page.kind = "prompt"
    /\ page.c.showPrompt
    /\ page' = [page EXCEPT !.c = dismiss(page.c),
                            !.storedDismissed = TRUE,
                            !.choices = page.choices \cup {"closed"}]
    /\ Offline

\* The page is loaded again, in a tab or, once installed, as the app:
\* localStorage survives, the component does not.
Reload(standalone) ==
    /\ page.kind = "prompt"
    /\ page.c.mounted
    /\ standalone => page.installed
    /\ page' = [page EXCEPT !.c = Unmounted, !.standalone = standalone]
    /\ Offline

InitPrompt ==
    /\ apiKey = ""
    /\ InitWorker
    /\ input = Idle
    /\ output = Idle
    /\ page \in [kind : {"prompt"}, browser : Browsers, favorites : SUBSET Pairs,
                 storedDismissed : {FALSE}, installed : {FALSE}, standalone : {FALSE},
                 choices : {{}}, c : {Unmounted}]

NextPrompt ==
    \/ Mount
    \/ BeforeInstallPrompt
    \/ \E pair \in Pairs : ToggleFavorite(pair)
    \/ Install
    \/ \E outcome \in {"accepted", "dismissed"} : UserChoice(outcome)
    \/ Dismiss
    \/ \E standalone \in BOOLEAN : Reload(standalone)

SpecPrompt == InitPrompt /\ [][NextPrompt]_vars

\* ----------------------------------------------------------------------
\* Claims about the install prompt
\* ----------------------------------------------------------------------

\* C24: the prompt is visible only while the app is not standalone, the
\* prompt was never dismissed (by its Close button or in the browser's own
\* prompt) nor an install accepted, and a favorite pair exists; so after a
\* dismissal or an accepted install it is not shown again, in the session
\* or after a reload.
C24_HiddenOnceDismissed ==
    (page.kind = "prompt" /\ page.c.showPrompt) =>
        /\ ~page.standalone
        /\ page.choices = {}
        /\ page.favorites # {}

\* ======================================================================
\* The realtime merger: parseFeed over whole feeds, then
\* buildRealtimeStatus, inside a scheduled run
\* ======================================================================

\* The longest entity list of a feed.
MaxEntities == 2

\* extractTranslation(txt): the English text of a TranslatedString.
RECURSIVE extractTranslation(_)
extractTranslation(translation) ==
    IF translation = <<>> THEN ""
    ELSE IF Head(translation).language = "en" THEN Head(translation).text
    ELSE extractTranslation(Tail(translation))

\* FeedEntity: each of trip_update, vehicle and alert may be absent.
Entity(tripUpdate, vehicle, alert) ==
    [trip_update |-> tripUpdate, vehicle |-> vehicle, alert |-> alert]

Stop(id, delay, time) ==
    [stop_id |-> id, departure |-> [delay |-> delay, time |-> time], arrival |-> Null]

Position(lat, lon, bearing, speed) ==
    [latitude |-> lat, longitude |-> lon, bearing |-> bearing, speed |-> speed]

LateT1 == Entity([trip_id |-> "T1", delay |-> 120, stop_time_update |-> <<>>], Null, Null)

MovingT1 ==
    Entity(Null, [trip_id |-> "T1",
                  position |-> Position(Finite(37400004), Finite(0 - 122100004), 90, 12)], Null)

\* Entities met in the TripUpdates feed: T1 late by its trip-level delay,
\* T1 with nothing but a stop, T2 with a stop-level delay and time, an
\* update without a trip id, and a stray vehicle position.
TripUpdateEntities ==
    { LateT1,
      Entity([trip_id |-> "T1", delay |-> 0, stop_time_update |-> <<Stop("S1", 0, 0)>>], Null, Null),
      Entity([trip_id |-> "T2", delay |-> 0, stop_time_update |-> <<Stop("", 600, 1000)>>], Null, Null),
      Entity([trip_id |-> "", delay |-> 120, stop_time_update |-> <<>>], Null, Null),
      Entity(Null, [trip_id |-> "T2",
                    position |-> Position(Finite(37500000), Finite(0 - 122200000), 0, 0)], Null) }

\* Entities met in the VehiclePositions feed: T1 standing still heading
\* north, T1 moving, T2 with a coordinate that is not finite, and T3, a
\* trip without a trip update.
VehicleEntities ==
    { Entity(Null, [trip_id |-> "T1",
                    position |-> Position(Finite(37123456), Finite(0 - 122654321), 0, 0)], Null),
      MovingT1,
      Entity(Null, [trip_id |-> "T2",
                    position |-> Position(NotFinite, Finite(0 - 122100004), 90, 12)], Null),
      Entity(Null, [trip_id |-> "T3",
                    position |-> Position(Finite(37300000), Finite(0 - 122000000), 180, 0)], Null) }

AlertEntities ==
    { Entity(Null, Null, [header_text |-> <<[text |-> "Retrasos", language |-> "es"],
                                             [text |-> "Delays", language |-> "en"]>>]) }

RECURSIVE EntityLists(_, _)
EntityLists(entities, n) ==
    IF n = 0 THEN {<<>>}
    ELSE LET shorter == EntityLists(entities, n - 1)
         IN  shorter \cup {Append(l, x) : l \in {k \in shorter : Len(k) = n - 1},
                                          x \in entities}

\* FeedHeader: absent, or with a timestamp (0 when unset).
Headers == {Null} \cup [timestamp : 0..MaxTs]

FeedMessage(header, entity) == [header |-> header, entity |-> entity]

\* The three feeds one run downloads: every combination of header
\* timestamps, and every combination of entity lists.
FeedTriples ==
    { [tripUpdates      |-> FeedMessage(h1, <<x>>),
       vehiclePositions |-> FeedMessage(h2, <<y>>),
       serviceAlerts    |-> FeedMessage(h3, <<z>>)] :
         h1 \in Headers, h2 \in Headers, h3 \in Headers,
         x \in {LateT1}, y \in {MovingT1},
         z \in AlertEntities }
    \cup
    { [tripUpdates      |-> FeedMessage([timestamp |-> 1], xs),
       vehiclePositions |-> FeedMessage(Null, ys),
       serviceAlerts    |-> FeedMessage([timestamp |-> 1], <<>>)] :
         xs \in EntityLists(TripUpdateEntities, MaxEntities),
         ys \in EntityLists(VehicleEntities, MaxEntities) }

\* Lines 162-167 and 169-170 of the alert branch: the alert pushed to
\* `alerts` (its header; the other fields are absent from these alerts).
parseAlert(a) == [h |-> extractTranslation(a.header_text)]

\* The positions map after the entities from position j on.
RECURSIVE positionsAfter(_, _, _)
positionsAfter(entities, j, positions) ==
    IF j > Len(entities) THEN positions
    ELSE positionsAfter(entities, j + 1,
             IF entities[j].vehicle # Null
             THEN parseVehicle(entities[j].vehicle) @@ positions
             ELSE positions)

\* parseFeed(buffer), `feed` being the decoded FeedMessage.
parseFeed(feed) ==
    LET timestamp == IF feed.header = Null THEN 0 ELSE feed.header.timestamp
        entities == feed.entity
    IN  [t |-> timestamp,
         e |-> concat([j \in 1..Len(entities) |->
                   IF entities[j].trip_update # Null
                   THEN parseTripUpdate(entities[j].trip_update) ELSE <<>>]),
         p |-> positionsAfter(entities, 1, <<>>),
         a |-> concat([j \in 1..Len(entities) |->
                   IF entities[j].alert # Null
                   THEN <<parseAlert(entities[j].alert)>> ELSE <<>>])]

\* The run has its three buffers: parse, merge, issue the put.
ScheduledParsed ==
    /\ input.kind = "feeds"
    /\ ScheduledFetched(<<parseFeed(input.feeds.tripUpdates),
                          parseFeed(input.feeds.vehiclePositions),
                          parseFeed(input.feeds.serviceAlerts)>>)

InitMerge ==
    /\ apiKey = "k3y"
    /\ InitWorker
    /\ input \in [kind : {"feeds"}, feeds : FeedTriples]
    /\ output = Idle
    /\ page = Idle

NextMerge ==
    \/ ScheduledStart
    \/ ScheduledParsed
    \/ ScheduledPut
    \/ \E request \in RealtimeGets : \E alive \in Alive(request) : Fetch(request, alive)

SpecMerge == InitMerge /\ [][NextMerge]_vars

\* ----------------------------------------------------------------------
\* Claims about the merged realtime status
\* ----------------------------------------------------------------------

\* The statuses the run has produced: the one handed to the store and the
\* one stored.
Statuses ==
    (IF pending # Null THEN {pending} ELSE {})
        \cup (IF rtEntry # Null THEN {rtEntry.value} ELSE {})

\* The trip updates of the TripUpdates feed that carry a trip id, and the
\* vehicles of the VehiclePositions feed, in feed order.
updatesOf(feed) ==
    SelectSeq([j \in 1..Len(feed.entity) |-> feed.entity[j].trip_update],
              LAMBDA tu : tu # Null /\ tu.trip_id # "")

vehiclesOf(feed) ==
    SelectSeq([j \in 1..Len(feed.entity) |-> feed.entity[j].vehicle],
              LAMBDA v : v # Null)

\* C25: in a merged status zero means absent: no trip record has d = 0,
\* t = 0 or an empty s, st is always 2, and no position has b = 0 or
\* sp = 0.
C25_ZeroMeansAbsent ==
    \A status \in Statuses : \A i \in DOMAIN status.byTrip :
        LET trip == status.byTrip[i] IN
        /\ "d" \in DOMAIN trip => trip.d # 0
        /\ "t" \in DOMAIN trip => trip.t # 0
        /\ "s" \in DOMAIN trip => trip.s # ""
        /\ "st" \in DOMAIN trip /\ trip.st = 2
        /\ "p" \in DOMAIN trip =>
              /\ "b" \in DOMAIN trip.p => trip.p.b # 0
              /\ "sp" \in DOMAIN trip.p => trip.p.sp # 0

\* A status is stored for feeds in which T1 has no delay, no time, and a
\* position with bearing 0 and speed 0: its record has only s, st and p.
C25_ZerosOmitted ==
    /\ rtEntry # Null
    /\ updatesOf(input.feeds.tripUpdates)
          = <<[trip_id |-> "T1", delay |-> 0, stop_time_update |-> <<Stop("S1", 0, 0)>>]>>
    /\ Len(vehiclesOf(input.feeds.vehiclePositions)) = 1
    /\ "T1" \in DOMAIN rtEntry.value.byTrip
    /\ DOMAIN rtEntry.value.byTrip["T1"] = {"s", "st", "p"}
    /\ DOMAIN rtEntry.value.byTrip["T1"].p = {"la", "lo"}

\* The last position in `list` that satisfies `Test`, 0 when none does.
lastWhere(list, Test(_)) ==
    LET at == {j \in DOMAIN list : Test(list[j])}
    IN  IF at = {} THEN 0 ELSE CHOOSE j \in at : \A k \in at : k <= j

validFor(i, v) ==
    /\ v.trip_id = i
    /\ v.position # Null
    /\ v.position.latitude.finite
    /\ v.position.longitude.finite

\* C26: byTrip has one key per non-empty trip id among the trip updates of
\* the TripUpdates feed, each record made from the last update of that id;
\* a record has p exactly when the VehiclePositions feed holds a valid
\* position for the id, and p is then that position; positions of other
\* trips are not published.
C26_OneRecordPerTripWithItsPosition ==
    \A status \in Statuses :
        LET updates == updatesOf(input.feeds.tripUpdates)
            vehicles == vehiclesOf(input.feeds.vehiclePositions)
        IN  /\ DOMAIN status.byTrip = {updates[j].trip_id : j \in DOMAIN updates}
            /\ \A i \in DOMAIN status.byTrip :
                  LET trip == status.byTrip[i]
                      ent == parseTripUpdate(
                                 updates[lastWhere(updates, LAMBDA tu : tu.trip_id = i)])[1]
                      v == lastWhere(vehicles, LAMBDA x : validFor(i, x))
                  IN  /\ \A f \in {"d", "t", "s"} :
                            /\ f \in DOMAIN trip <=> f \in DOMAIN ent
                            /\ f \in DOMAIN trip => trip[f] = ent[f]
                      /\ "p" \in DOMAIN trip <=> v # 0
                      /\ v # 0 =>
                            /\ trip.p.la = round5(vehicles[v].position.latitude).u
                            /\ trip.p.lo = round5(vehicles[v].position.longitude).u

\* A status is stored for a TripUpdates feed with two updates of T1 and a
\* VehiclePositions feed with positions of T1 and T3: T1 is the only key,
\* its record comes from the second update and carries the position.
C26_ReplacedAndJoined ==
    /\ rtEntry # Null
    /\ Len(updatesOf(input.feeds.tripUpdates)) = 2
    /\ input.feeds.tripUpdates.entity[1] = LateT1
    /\ \E j \in DOMAIN input.feeds.vehiclePositions.entity :
          input.feeds.vehiclePositions.entity[j].vehicle.trip_id = "T3"
    /\ DOMAIN rtEntry.value.byTrip = {"T1"}
    /\ DOMAIN rtEntry.value.byTrip["T1"] = {"s", "st", "p"}

\* The header timestamp of a feed, a missing header counting as 0.
headerTimestamp(feed) == IF feed.header = Null THEN 0 ELSE feed.header.timestamp

maxHeaderTimestamp ==
    LET stamps == {headerTimestamp(input.feeds.tripUpdates),
                   headerTimestamp(input.feeds.vehiclePositions),
                   headerTimestamp(input.feeds.serviceAlerts)}
    IN  CHOOSE m \in stamps : \A x \in stamps : x <= m

\* C27: the t of a published status, the metadata t stored with it and the
\* ETag served for it are those of the maximum of the three feed header
\* timestamps, a missing header timestamp counting as 0.
C27_MaxOfHeaderTimestamps ==
    /\ \A status \in Statuses : status.t = maxHeaderTimestamp
    /\ rtEntry # Null => rtEntry.metadata.t = maxHeaderTimestamp
    /\ (RealtimeAnswered /\ resp.etag # None) => resp.etag = etagOf(maxHeaderTimestamp)

\* The TripUpdates feed has no header, the VehiclePositions feed is stamped
\* 2 and the ServiceAlerts feed 1: the status is served with the tag of 2.
C27_ServedWithMaxTag ==
    /\ RealtimeAnswered
    /\ resp.status = 200
    /\ input.feeds.tripUpdates.header = Null
    /\ input.feeds.vehiclePositions.header = [timestamp |-> 2]
    /\ input.feeds.serviceAlerts.header = [timestamp |-> 1]
    /\ resp.etag = etagOf(2)
    /\ resp.body = Stored(rtEntry.value)
    /\ rtEntry.value.t = 2

\* ----------------------------------------------------------------------
\* Claims about revalidation and successive runs
\* ----------------------------------------------------------------------

\* C28: when GET /api/realtime answers 304 to the ETag a client was given
\* with a 200, the body now stored is the body that 200 carried.
C28_NotModifiedMeansSameBody ==
    (/\ RealtimeAnswered
     /\ resp.status = 304
     /\ seen # NoResp
     /\ resp.request.inm = seen.etag) =>
        Stored(rtEntry.value) = seen.body

\* C29: the put of a successful run replaces realtime:status whatever was
\* stored: afterwards the stored value is the run's merged status and the
\* stored metadata its timestamp, also when the timestamp stored before
\* was higher.
C29_LastWriterWins ==
    [][(pc = "put" /\ ended'.kind = "run" /\ ended'.stored) =>
          /\ RealtimeStatus \in DOMAIN kv'
          /\ kv'[RealtimeStatus].value = pending
          /\ kv'[RealtimeStatus].metadata = [t |-> pending.t]]_vars

\* A run has stored a status whose feed timestamp is lower than the one
\* stored when the run began.
C29_TimestampDecreased ==
    /\ ended.kind = "run"
    /\ ended.stored
    /\ ended.before # Null
    /\ ended.before.value.t > rtEntry.value.t
    /\ rtEntry.metadata.t = rtEntry.value.t

\* ======================================================================
\* Web client: schedule cache and background update (sync.ts, db.ts)
\* ======================================================================

\* The bundles a server may serve: two archives, a bundle of a newer
\* schema, and a bundle whose metadata has no schema version.
Bundles ==
    { [m |-> [v |-> "sha-1", e |-> 20261231, sv |-> 1]],
      [m |-> [v |-> "sha-2", e |-> 20270630, sv |-> 1]],
      [m |-> [v |-> "sha-1", e |-> 20261231, sv |-> 2]],
      [m |-> [v |-> "sha-1", e |-> 20261231, u |-> 1767225600]] }

\* A property read: undefined when the object does not have it.
Undefined == [undefined |-> TRUE]

get(obj, name) == IF name \in DOMAIN obj THEN [value |-> obj[name]] ELSE Undefined

\* cacheSchedule(schedule): the single row of the schedules table.
cacheSchedule(schedule) ==
    [version |-> schedule.m.v, data |-> schedule, cachedAt |-> now]

\* cacheMeta(meta): the single row of the meta table.
cacheMeta(meta) == [key |-> "current", meta |-> meta, checkedAt |-> now]

NoCheck == [phase |-> "none"]

\* initSchedule up to its return, or up to the fetch of the first load.
InitSchedule ==
    /\ page.kind = "sync"
    /\ page.phase = "start"
    /\ IF page.schedules # Null
       THEN page' = [page EXCEPT
                !.phase = "returned",
                !.returned = page.schedules.data,
                !.check = [phase |-> "meta",
                           currentVersion |-> get(page.schedules, "version"),
                           currentSchemaVersion |-> get(page.schedules, "schemaVersion")]]
       ELSE page' = [page EXCEPT !.phase = "first"]
    /\ Offline

\* First load: /api/schedule answers; the bundle is cached and returned.
\* A failed fetch rejects initSchedule.
FirstLoad(ok) ==
    /\ page.kind = "sync"
    /\ page.phase = "first"
    /\ IF ok
       THEN page' = [page EXCEPT !.schedules = cacheSchedule(page.server),
                                 !.phase = "returned",
                                 !.returned = page.server,
                                 !.requests = @ \cup {"/api/schedule"}]
       ELSE page' = [page EXCEPT !.phase = "failed",
                                 !.requests = @ \cup {"/api/schedule"}]
    /\ Offline

\* checkForUpdate: /api/meta answers.  A failed fetch ends the check with
\* a warning.
MetaChecked(ok) ==
    /\ page.kind = "sync"
    /\ page.check.phase = "meta"
    /\ IF ok
       THEN LET meta == page.server.m IN
            page' = [page EXCEPT
                !.meta = cacheMeta(meta),
                !.requests = @ \cup {"/api/meta"},
                !.check = IF get(meta, "v") # page.check.currentVersion
                             \/ get(meta, "sv") # page.check.currentSchemaVersion
                          THEN [page.check EXCEPT !.phase = "download"]
                          ELSE NoCheck]
       ELSE page' = [page EXCEPT !.check = NoCheck, !.requests = @ \cup {"/api/meta"}]
    /\ Offline

\* checkForUpdate: /api/schedule answers; the row is replaced and onUpdate
\* is called.  A failed fetch ends the check with a warning.
UpdateDownloaded(ok) ==
    /\ page.kind = "sync"
    /\ page.check.phase = "download"
    /\ IF ok
       THEN page' = [page EXCEPT !.schedules = cacheSchedule(page.server),
                                 !.updated = [value |-> page.server],
                                 !.requests = @ \cup {"/api/schedule"},
                                 !.check = NoCheck]
       ELSE page' = [page EXCEPT !.check = NoCheck,
                                 !.requests = @ \cup {"/api/schedule"}]
    /\ Offline

\* A new bundle is published on the server.
Publish(bundle) ==
    /\ page.kind = "sync"
    /\ bundle # page.server
    /\ page' = [page EXCEPT !.server = bundle]
    /\ Offline

\* The app is opened again: IndexedDB survives.
Reopen ==
    /\ page.kind = "sync"
    /\ page.phase \in {"returned", "failed"}
    /\ page.check = NoCheck
    /\ page' = [page EXCEPT !.phase = "start", !.returned = Null,
                            !.updated = Undefined, !.requests = {}]
    /\ Offline

InitSync ==
    /\ apiKey = ""
    /\ InitWorker
    /\ input = Idle
    /\ output = Idle
    /\ page \in [kind : {"sync"}, server : Bundles,
                 schedules : {Null} \cup {cacheSchedule(b) : b \in Bundles},
                 meta : {Null}, phase : {"start"}, returned : {Null},
                 updated : {Undefined}, requests : {{}}, check : {NoCheck}]

NextSync ==
    \/ InitSchedule
    \/ \E ok \in BOOLEAN : FirstLoad(ok)
    \/ \E ok \in BOOLEAN : MetaChecked(ok)
    \/ \E ok \in BOOLEAN : UpdateDownloaded(ok)
    \/ \E bundle \in Bundles : Publish(bundle)
    \/ Reopen

SpecSync == InitSync /\ [][NextSync]_vars

\* ----------------------------------------------------------------------
\* Claims about the schedule cache
\* ----------------------------------------------------------------------

\* C30: with a cached schedule, initSchedule returns the cached data before
\* any request is answered; the background check downloads /api/schedule,
\* replaces the cached row and calls onUpdate only if the v or the sv of
\* /api/meta differs from that of the cached bundle, so no download when
\* the cache holds the bundle the server serves.
C30_DownloadOnlyIfNewer ==
    page.kind = "sync" =>
        /\ (page.phase = "returned" /\ page.check.phase = "meta") =>
              /\ page.returned = page.schedules.data
              /\ page.requests = {}
        /\ page.check.phase = "download" =>
              \/ page.meta.meta.v # page.schedules.data.m.v
              \/ get(page.meta.meta, "sv") # get(page.schedules.data.m, "sv")
        /\ (page.phase = "returned" /\ page.updated # Undefined) =>
              "/api/schedule" \in page.requests

====
